---- MODULE Spec2Model ----
(***************************************************************************)
(* A model of the balancete (trial balance) parsers of parser-pdf.         *)
(*                                                                         *)
(* A Python string is modelled as a sequence of one-character strings,     *)
(* <<"C","A","I","X","A">> for "CAIXA".  An accented letter is one         *)
(* character whose name is the base letter followed by a mark ("I'" for    *)
(* I-acute, "A~" for A-tilde, "C," for C-cedilla).  Python's None is the   *)
(* value None below, which is no string of the model.                      *)
(***************************************************************************)
EXTENDS Integers, Sequences, FiniteSets, TLC

VARIABLES
    prog,               \* which program of the repository this behaviour runs
    shape,              \* the fields the input line is composed of
    line,               \* the text line handed to a line parser
    parser,             \* the line parser that was applied to line, "none" before
    entry,              \* what that parser returned
    names,              \* an account name followed by its successive normalizations
    page,               \* the page being processed: its visual lines, top to bottom
    page_num,           \* the number of pages opened so far
    line_idx,           \* the number of lines of the page processed so far
    bold_categories,    \* extract_bold_categories(page.chars), in insertion order
    parent_categories,  \* the category stack
    all_data,           \* the output list
    current_parent,     \* final_balancete_parser.py: the account of the last category
    entries,            \* final_balancete_parser.py: the output list of extract_data
    header,             \* the header of the document, the empty dict before it is built
    all_text,           \* final_balancete_parser.py: the texts of the pages read so far
    log,                \* history: for each line processed, how it was handled
    pages,              \* tokenizing ahead: the pages of the document
    tokens,             \* tokenizing ahead: the result of parse_data_line for each line
    resolved,           \* tokenizing ahead: the output built from the stored results
    pc                  \* final_balancete_parser.py: the step main has reached

lineVars == <<shape, line, parser, entry>>
docVars == <<page, page_num, line_idx, bold_categories, parent_categories, all_data,
            current_parent, entries, header, all_text, log>>
tokVars == <<pages, tokens, resolved>>
vars == <<prog, shape, line, parser, entry, names,
          page, page_num, line_idx, bold_categories, parent_categories, all_data,
          current_parent, entries, header, all_text, log, pages, tokens, resolved,
          pc>>

-----------------------------------------------------------------------------
(* Characters and strings *)

None == <<"None">>

\* a dict without keys
EmptyDict == <<>>

Digits == {"0","1","2","3","4","5","6","7","8","9"}
UpperAZ == {"A","B","C","D","E","F","G","H","I","J","K","L","M",
            "N","O","P","Q","R","S","T","U","V","W","X","Y","Z"}
LowerAZ == {"a","b","c","d","e","f","g","h","i","j","k","l","m",
            "n","o","p","q","r","s","t","u","v","w","x","y","z"}
\* the accented letters that occur in the skip keywords and skip patterns
AccentedUpper == {"I'", "A~", "O'", "E'", "C,", "U'"}
AccentedLower == {"i'", "a~", "o'", "e'", "c,", "u'"}

LowerSeq == <<"a","b","c","d","e","f","g","h","i","j","k","l","m",
              "n","o","p","q","r","s","t","u","v","w","x","y","z">>
UpperSeq == <<"A","B","C","D","E","F","G","H","I","J","K","L","M",
              "N","O","P","Q","R","S","T","U","V","W","X","Y","Z">>

\* the lower-case form of an accented capital
ToLowerAccent(u) ==
    CASE u = "I'" -> "i'" [] u = "A~" -> "a~" [] u = "O'" -> "o'"
      [] u = "E'" -> "e'" [] u = "C," -> "c," [] u = "U'" -> "u'"

IsDigit(c) == c \in Digits
IsAlpha(c) == c \in UpperAZ \cup LowerAZ \cup AccentedUpper \cup AccentedLower
IsUpperChar(c) == c \in UpperAZ \cup AccentedUpper
IsLowerChar(c) == c \in LowerAZ \cup AccentedLower
IsSpace(c) == c = " "
\* \w of Python's re on str
IsWord(c) == IsAlpha(c) \/ IsDigit(c) \/ c = "_"
IsDigitOrDot(c) == IsDigit(c) \/ c = "."

ToUpperChar(c) ==
    IF c \in LowerAZ
    THEN UpperSeq[CHOOSE i \in 1..26 : LowerSeq[i] = c]
    ELSE IF c \in AccentedLower
    THEN CHOOSE u \in AccentedUpper : ToLowerAccent(u) = c
    ELSE c

\* str.upper()
Upper(s) == [i \in 1..Len(s) |-> ToUpperChar(s[i])]

Max(S) == CHOOSE x \in S : \A y \in S : y <= x
Min(S) == CHOOSE x \in S : \A y \in S : x <= y

Slice(s, a, b) == IF a > b THEN <<>> ELSE SubSeq(s, a, b)
From(s, a) == Slice(s, a, Len(s))

\* index of the first occurrence of sub in s at or after position a; 0 if none
IndexFrom(s, sub, a) ==
    LET I == {i \in a..(Len(s) - Len(sub) + 1) :
                 Slice(s, i, i + Len(sub) - 1) = sub}
    IN IF I = {} THEN 0 ELSE Min(I)

\* sub in s
Contains(s, sub) == IndexFrom(s, sub, 1) > 0

\* s.startswith(p)
StartsWith(s, p) == Len(p) <= Len(s) /\ Slice(s, 1, Len(p)) = p

\* s.replace(sub, rep, 1)
ReplaceFirst(s, sub, rep) ==
    LET i == IndexFrom(s, sub, 1)
    IN IF Len(sub) = 0 \/ i = 0 THEN s
       ELSE Slice(s, 1, i - 1) \o rep \o From(s, i + Len(sub))

RECURSIVE ReplaceAll(_, _, _)
\* s.replace(sub, rep)
ReplaceAll(s, sub, rep) ==
    LET i == IndexFrom(s, sub, 1)
    IN IF Len(sub) = 0 \/ i = 0 THEN s
       ELSE Slice(s, 1, i - 1) \o rep \o ReplaceAll(From(s, i + Len(sub)), sub, rep)

RECURSIVE DigitRunEnd(_, _)
\* last index of the maximal run of digits that starts at i (i - 1 when s[i] is no digit)
DigitRunEnd(s, i) ==
    IF i <= Len(s) /\ IsDigit(s[i]) THEN DigitRunEnd(s, i + 1) ELSE i - 1

RECURSIVE SpaceRunEnd(_, _)
SpaceRunEnd(s, i) ==
    IF i <= Len(s) /\ IsSpace(s[i]) THEN SpaceRunEnd(s, i + 1) ELSE i - 1

RECURSIVE AlphaRunEnd(_, _)
AlphaRunEnd(s, i) ==
    IF i <= Len(s) /\ IsAlpha(s[i]) THEN AlphaRunEnd(s, i + 1) ELSE i - 1

RECURSIVE DigitDotRunEnd(_, _)
DigitDotRunEnd(s, i) ==
    IF i <= Len(s) /\ IsDigitOrDot(s[i]) THEN DigitDotRunEnd(s, i + 1) ELSE i - 1

RECURSIVE NonSpaceRunEnd(_, _)
NonSpaceRunEnd(s, i) ==
    IF i <= Len(s) /\ ~IsSpace(s[i]) THEN NonSpaceRunEnd(s, i + 1) ELSE i - 1

\* s.strip()
Strip(s) ==
    LET N == {i \in 1..Len(s) : ~IsSpace(s[i])}
    IN IF N = {} THEN <<>> ELSE SubSeq(s, Min(N), Max(N))

\* \b before position i of s (i in 1..Len(s)+1)
BoundaryAt(s, i) ==
    LET before == i > 1 /\ IsWord(s[i - 1])
        after == i <= Len(s) /\ IsWord(s[i])
    IN before # after

RECURSIVE Scan(_, _, _)
\* re.finditer: the non-overlapping matches <<start, end>>, leftmost first, of a
\* pattern that matches at i up to ends[i] (0: no match at i); matches are not empty
Scan(ends, i, n) ==
    IF i > n THEN <<>>
    ELSE IF ends[i] > 0 THEN <<(<<i, ends[i]>>)>> \o Scan(ends, ends[i] + 1, n)
    ELSE Scan(ends, i + 1, n)

\* the matched texts
Groups(s, ms) == [k \in 1..Len(ms) |-> SubSeq(s, ms[k][1], ms[k][2])]

RECURSIVE SplitFrom(_, _)
\* str.split(): the maximal runs of non-space characters
SplitFrom(s, i) ==
    IF i > Len(s) THEN <<>>
    ELSE IF IsSpace(s[i]) THEN SplitFrom(s, i + 1)
    ELSE LET e == NonSpaceRunEnd(s, i)
         IN <<SubSeq(s, i, e)>> \o SplitFrom(s, e + 1)

Split(s) == SplitFrom(s, 1)

RECURSIVE JoinSp(_)
\* ' '.join(ws)
JoinSp(ws) ==
    IF Len(ws) = 0 THEN <<>>
    ELSE IF Len(ws) = 1 THEN ws[1]
    ELSE ws[1] \o <<" ">> \o JoinSp(Tail(ws))

RECURSIVE CollapseSpaces(_, _)
\* re.sub(r'\s+', ' ', s)
CollapseSpaces(s, i) ==
    IF i > Len(s) THEN <<>>
    ELSE IF IsSpace(s[i]) THEN <<" ">> \o CollapseSpaces(s, SpaceRunEnd(s, i) + 1)
    ELSE <<s[i]>> \o CollapseSpaces(s, i + 1)

-----------------------------------------------------------------------------
(* extract_pdf.py: the Account Name Normalizer *)

\* remove_duplicate_text: the positions at which word and next_word hold the same character
SameCharCount(w, v) ==
    Cardinality({k \in 1..Min({Len(w), Len(v)}) : w[k] = v[k]})

\* similarity > 0.8, with similarity = matches / max(len(word), len(next_word))
Similar(w, v) ==
    /\ Len(w) > 3
    /\ Len(v) > 3
    /\ 5 * SameCharCount(w, v) > 4 * Max({Len(w), Len(v)})

RECURSIVE DedupWords(_, _)
\* the while loop of remove_duplicate_text, from word index i on
DedupWords(words, i) ==
    IF i > Len(words) THEN <<>>
    ELSE IF i + 1 <= Len(words) /\ Similar(words[i], words[i + 1])
         THEN <<words[i]>> \o DedupWords(words, i + 2)
         ELSE <<words[i]>> \o DedupWords(words, i + 1)

remove_duplicate_text(text) ==
    IF Len(text) = 0 THEN <<>>
    ELSE LET words == Split(text)
         IN IF Len(words) < 2 THEN text
            ELSE JoinSp(DedupWords(words, 1))

\* re.sub(r'^\d{4,6}\s+', '', name)
StripLeadingCode(name) ==
    LET e == DigitRunEnd(name, 1)
        w == SpaceRunEnd(name, e + 1)
    IN IF e >= 4 /\ e <= 6 /\ w > e THEN From(name, w + 1) ELSE name

\* r'\b\d+\.\d+\.\d+\.\d+\.\d+\b' at position i: the end of the match, 0 if none.
\* Every \d+ but the last is followed by a dot and the last by \b, so each takes
\* its whole digit run.
RECURSIVE DottedEnd(_, _, _)
\* the end of k dot-separated digit runs starting at i, 0 if there are fewer
DottedEnd(s, i, k) ==
    LET e == DigitRunEnd(s, i)
    IN IF e < i THEN 0
       ELSE IF k = 1 THEN e
       ELSE IF e + 1 <= Len(s) /\ s[e + 1] = "." THEN DottedEnd(s, e + 2, k - 1)
       ELSE 0

Classification5End(s, i) ==
    LET e == DottedEnd(s, i, 5)
    IN IF BoundaryAt(s, i) /\ e > 0 /\ BoundaryAt(s, e + 1) THEN e ELSE 0

Classification5Matches(s) ==
    Scan([i \in 1..Len(s) |-> Classification5End(s, i)], 1, Len(s))

DigitChar == <<"0","1","2","3","4","5","6","7","8","9">>

\* f"__PROTECTED_{k}__", for k < 10
Placeholder(k) ==
    <<"_","_","P","R","O","T","E","C","T","E","D","_">> \o <<DigitChar[k + 1]>> \o <<"_","_">>

RECURSIVE Protect(_, _, _)
\* the protection loop: the k-th match text is replaced, once, by its placeholder
Protect(name, parts, k) ==
    IF k > Len(parts) THEN name
    ELSE Protect(ReplaceFirst(name, parts[k], Placeholder(k - 1)), parts, k + 1)

RECURSIVE Restore(_, _, _)
Restore(name, parts, k) ==
    IF k > Len(parts) THEN name
    ELSE Restore(ReplaceAll(name, Placeholder(k - 1), parts[k]), parts, k + 1)

\* the digit loop: whether the character at i is kept
KeepChar(name, i) ==
    LET prev_is_alpha == i > 1 /\ IsAlpha(name[i - 1])
        next_is_alpha == i < Len(name) /\ IsAlpha(name[i + 1])
    IN IF ~IsDigit(name[i]) THEN TRUE
       ELSE IF prev_is_alpha /\ next_is_alpha THEN FALSE
       ELSE IF i > 1 /\ IsDigit(name[i - 1]) THEN TRUE
       ELSE IF i < Len(name) /\ IsDigit(name[i + 1]) THEN TRUE
       ELSE ~(prev_is_alpha \/ next_is_alpha)

RECURSIVE StripMixedDigits(_, _)
StripMixedDigits(name, i) ==
    IF i > Len(name) THEN <<>>
    ELSE (IF KeepChar(name, i) THEN <<name[i]>> ELSE <<>>) \o StripMixedDigits(name, i + 1)

RECURSIVE StripTrailingDigits(_, _)
\* re.sub(r'([A-Za-z\u00C0-\u00FF]+)(\d+)(\s|$|[A-Z])', r'\1\3', name), from position i on.
\* The letters are followed by a digit and the digits by a non-digit, so each
\* group takes its whole run; a match consumes the character of group 3.
StripTrailingDigits(s, i) ==
    IF i > Len(s) THEN <<>>
    ELSE LET le == AlphaRunEnd(s, i)
             de == DigitRunEnd(s, le + 1)
         IN IF le >= i /\ de > le /\ de = Len(s)
            THEN SubSeq(s, i, le)
            ELSE IF le >= i /\ de > le /\ (IsSpace(s[de + 1]) \/ s[de + 1] \in UpperAZ)
            THEN SubSeq(s, i, le) \o <<s[de + 1]>> \o StripTrailingDigits(s, de + 2)
            ELSE <<s[i]>> \o StripTrailingDigits(s, i + 1)

\* re.sub(r'\.(?!\d)', ' ', name)
StripLoneDots(s) ==
    [i \in 1..Len(s) |->
        IF s[i] = "." /\ ~(i < Len(s) /\ IsDigit(s[i + 1])) THEN " " ELSE s[i]]

clean_account_name_final(name0) ==
    IF Len(name0) = 0 THEN <<>>
    ELSE LET name1 == StripLeadingCode(name0)
             protected_parts == Groups(name1, Classification5Matches(name1))
             name2 == Protect(name1, protected_parts, 1)
             name3 == StripMixedDigits(name2, 1)
             name4 == Restore(name3, protected_parts, 1)
             name5 == StripTrailingDigits(name4, 1)
             name6 == StripLoneDots(name5)
             name7 == CollapseSpaces(name6, 1)
             name8 == remove_duplicate_text(name7)
         IN Strip(name8)

-----------------------------------------------------------------------------
(* extract_pdf.py: the Line Tokenizer *)

\* a line parser's "return None"
Rejected == [ok |-> FALSE]

\* the dict a line parser returns
Entry(code, classification, account, previous_balance, debit, credit, current_balance, parent_category) ==
    [ok |-> TRUE, code |-> code, classification |-> classification,
     account |-> account, previous_balance |-> previous_balance,
     debit |-> debit, credit |-> credit, current_balance |-> current_balance,
     parent_category |-> parent_category]

\* "x if x else None"
OrNone(x) == IF x = None \/ Len(x) = 0 THEN None ELSE x

skip_keywords ==
    {<<"E","M","P","R","E","S","A",":">>,
     <<"C",".","N",".","P",".","J",".",":">>,
     <<"P","E","R","I'","O","D","O",":">>,
     <<"E","M","I","S","S","A~","O",":">>,
     <<"H","O","R","A",":">>,
     <<"B","A","L","A","N","C","E","T","E">>,
     <<"C","O'","D","I","G","O">>,
     <<"C","L","A","S","S","I","F","I","C","A","C,","A~","O">>,
     <<"D","E","S","C","R","I","C,","A~","O">>,
     <<"S","A","L","D","O"," ","A","N","T","E","R","I","O","R">>,
     <<"D","E'","B","I","T","O">>,
     <<"C","R","E'","D","I","T","O">>,
     <<"S","A","L","D","O"," ","A","T","U","A","L">>,
     <<"C","O","N","S","O","L","I","D","A","D","O">>,
     <<"C","P","F",":">>,
     <<"_","_","_","_","_","_","_","_","_","_","_","_","_","_","_","_","_","_","_","_",
       "_","_","_","_","_","_","_","_","_","_","_","_","_","_","_","_","_","_","_">>,
     <<"G","I","L","M","I","E","R">>,
     <<"C","R","I","S","T","I","A","N","I">>,
     <<"M","I","R","I">>,
     <<"Z","U","C","O","L","O","T","O">>,
     <<"N","U'","M","E","R","O"," ","L","I","V","R","O">>,
     <<"F","O","L","H","A",":">>}

\* any(keyword in line.upper() for keyword in skip_keywords)
HasSkipKeyword(l) == \E kw \in skip_keywords : Contains(Upper(l), kw)

\* monetary_pattern r'[\d\.]+,\d{2}' at position i: the end of the match, 0 if none.
\* The run of digits and dots is followed by a comma, so it is taken whole.
MonetaryEnd(s, i) ==
    LET e == DigitDotRunEnd(s, i)
    IN IF e >= i /\ e + 3 <= Len(s) /\ s[e + 1] = ","
          /\ IsDigit(s[e + 2]) /\ IsDigit(s[e + 3])
       THEN e + 3 ELSE 0

\* list(re.finditer(monetary_pattern, line))
monetary_matches(l) == Scan([i \in 1..Len(l) |-> MonetaryEnd(l, i)], 1, Len(l))

\* r'\b(\d{4,6})\b' at position i: the end of the match, 0 if none
LedgerCodeEnd(s, i) ==
    LET e == DigitRunEnd(s, i)
    IN IF BoundaryAt(s, i) /\ e - i + 1 >= 4 /\ e - i + 1 <= 6 /\ BoundaryAt(s, e + 1)
       THEN e ELSE 0

\* re.search(r'\b(\d{4,6})\b', s): <<start, end>> of the first match, <<>> if none
LedgerCodeSearch(s) ==
    LET I == {i \in 1..Len(s) : LedgerCodeEnd(s, i) > 0}
    IN IF I = {} THEN <<>> ELSE <<Min(I), LedgerCodeEnd(s, Min(I))>>

\* re.search(r'\b(\d+\.\d+\.\d+\.\d+\.\d+)\b', s)
Classification5Search(s) ==
    LET I == {i \in 1..Len(s) : Classification5End(s, i) > 0}
    IN IF I = {} THEN <<>> ELSE <<Min(I), Classification5End(s, Min(I))>>

parse_monetary_value(value) ==
    IF Len(value) = 0 THEN None
    ELSE LET cleaned == SelectSeq(value, LAMBDA c : IsDigitOrDot(c) \/ c = ",")
             n == Len(cleaned)
         IN IF n >= 4 /\ cleaned[n - 2] = "," /\ IsDigit(cleaned[n - 1]) /\ IsDigit(cleaned[n])
               /\ \A k \in 1..(n - 3) : IsDigitOrDot(cleaned[k])
            THEN cleaned ELSE None

\* the if/elif chain of parse_data_line that assigns the monetary values:
\* <<previous_balance, debit, credit, current_balance>>
AssignSlots(monetary_values) ==
    LET n == Len(monetary_values)
        V(k) == parse_monetary_value(monetary_values[k])
    IN IF n >= 4 THEN <<V(1), V(2), V(3), V(4)>>
       ELSE IF n = 3 THEN <<V(1), V(2), V(3), None>>
       ELSE IF n = 2 THEN <<V(1), None, None, V(2)>>
       ELSE IF n = 1 THEN <<None, None, None, V(1)>>
       ELSE <<None, None, None, None>>

\* the branch of parse_data_line for a line without monetary values
ParseBareLine(l) ==
    LET cleaned_account == clean_account_name_final(l)
    IN IF Len(l) > 10 /\ Len(cleaned_account) > 3
       THEN Entry(None, None, cleaned_account, None, None, None, None, None)
       ELSE Rejected

\* only the empty name is rejected, as in extract_pdf_v3.py
NameTooShort_OnlyEmpty(account) == Len(account) = 0

\* "not account or len(account) < 3"
NameTooShort(account) == Len(account) < 3

\* the branch of parse_data_line for a line with monetary values
ParseValueLine(l, matches) ==
    LET monetary_values == Groups(l, matches)
        parts_before_values == Strip(Slice(l, 1, matches[1][1] - 1))
        classification_match == Classification5Search(parts_before_values)
        has_classification == classification_match # <<>>
        classification ==
            IF has_classification
            THEN SubSeq(parts_before_values, classification_match[1], classification_match[2])
            ELSE None
        code_match ==
            IF has_classification
            THEN LedgerCodeSearch(Strip(Slice(parts_before_values, 1, classification_match[1] - 1)))
            ELSE LedgerCodeSearch(parts_before_values)
        code ==
            IF code_match = <<>> THEN None
            ELSE IF has_classification
            THEN LET code_before == Strip(Slice(parts_before_values, 1, classification_match[1] - 1))
                 IN SubSeq(code_before, code_match[1], code_match[2])
            ELSE SubSeq(parts_before_values, code_match[1], code_match[2])
        account_start_idx ==
            IF has_classification THEN classification_match[2]
            ELSE IF code_match # <<>> THEN code_match[2]
            ELSE 0
        account_text == Strip(From(parts_before_values, account_start_idx + 1))
        account == clean_account_name_final(account_text)
        slots == AssignSlots(monetary_values)
    IN IF NameTooShort(account) THEN Rejected
       ELSE Entry(OrNone(code), OrNone(classification), account,
                  OrNone(slots[1]), OrNone(slots[2]), OrNone(slots[3]), OrNone(slots[4]),
                  None)

\* a tokenizer with a memory: the account of the result it returned last becomes
\* the parent_category of the next result
parse_data_line_Remembering(line0) ==
    IF Len(line0) = 0 \/ Len(Strip(line0)) < 3 THEN Rejected
    ELSE LET l == Strip(line0)
             matches == monetary_matches(l)
             e == IF HasSkipKeyword(l) THEN Rejected
                  ELSE IF Len(matches) = 0 THEN ParseBareLine(l)
                  ELSE ParseValueLine(l, matches)
         IN IF e.ok /\ entry.ok THEN [e EXCEPT !.parent_category = entry.account] ELSE e

\* parse_data_line of extract_pdf.py
parse_data_line(line0) ==
    IF Len(line0) = 0 \/ Len(Strip(line0)) < 3 THEN Rejected
    ELSE LET l == Strip(line0)
             matches == monetary_matches(l)
         IN IF HasSkipKeyword(l) THEN Rejected
            ELSE IF Len(matches) = 0 THEN ParseBareLine(l)
            ELSE ParseValueLine(l, matches)

-----------------------------------------------------------------------------
(* final_balancete_parser.py: the line parser *)

RECURSIVE ThousandsEnd(_, _)
\* (?:\.\d{3})* after position e: the end of the last group taken
ThousandsEnd(s, e) ==
    IF e + 4 <= Len(s) /\ s[e + 1] = "." /\ IsDigit(s[e + 2]) /\ IsDigit(s[e + 3])
       /\ IsDigit(s[e + 4])
    THEN ThousandsEnd(s, e + 4) ELSE e

\* value_pattern r'-?\d{1,3}(?:\.\d{3})*,\d{2}' at position i: the end of the match,
\* 0 if none.  What follows \d{1,3} is a dot or a comma, so the digit run at the
\* start has at most three digits; what follows the groups is the comma.
ValueEnd(s, i) ==
    LET j == IF s[i] = "-" THEN i + 1 ELSE i
        d == DigitRunEnd(s, j)
        e == ThousandsEnd(s, d)
    IN IF d >= j /\ d - j + 1 <= 3 /\ e + 3 <= Len(s) /\ s[e + 1] = ","
          /\ IsDigit(s[e + 2]) /\ IsDigit(s[e + 3])
       THEN e + 3 ELSE 0

\* re.findall(value_pattern, line)
FindValues(l) == Groups(l, Scan([i \in 1..Len(l) |-> ValueEnd(l, i)], 1, Len(l)))

\* re.match(r'^(\d{1,6})(?:\s|[A-Z\u00C0-\u00DA])', line): group 1, None if no match
MatchLeadingCode(l) ==
    LET e == DigitRunEnd(l, 1)
    IN IF e >= 1 /\ e <= 6 /\ e < Len(l) /\ (IsSpace(l[e + 1]) \/ IsUpperChar(l[e + 1]))
       THEN SubSeq(l, 1, e) ELSE None

RECURSIVE LevelEnds(_, _)
\* the ends of the successive groups (?:\.\d{1,3}) after position e, each a dot
\* and a whole digit run of one to three digits
LevelEnds(s, e) ==
    LET d == DigitRunEnd(s, e + 2)
    IN IF e + 1 <= Len(s) /\ s[e + 1] = "." /\ d >= e + 2 /\ d - (e + 2) + 1 <= 3
       THEN <<d>> \o LevelEnds(s, d)
       ELSE <<>>

\* class_pattern r'\b(\d{1,2}\.\d{1,2}(?:\.\d{1,3}){1,})\b' at position i: the end
\* of the match, 0 if none.  The groups are taken greedily; when a word character
\* follows the last one, the match backtracks to the group before it.
ClassPatternEnd(s, i) ==
    LET e1 == DigitRunEnd(s, i)
        e2 == DigitRunEnd(s, e1 + 2)
        ok2 == /\ BoundaryAt(s, i)
               /\ e1 >= i /\ e1 - i + 1 <= 2
               /\ e1 + 1 <= Len(s) /\ s[e1 + 1] = "."
               /\ e2 >= e1 + 2 /\ e2 - (e1 + 2) + 1 <= 2
        ends == LevelEnds(s, e2)
        n == Len(ends)
    IN IF ~ok2 \/ n = 0 THEN 0
       ELSE IF BoundaryAt(s, ends[n] + 1) THEN ends[n]
       ELSE IF n >= 2 THEN ends[n - 1]
       ELSE 0

\* re.findall(class_pattern, line)
FindClassifications(l) ==
    Groups(l, Scan([i \in 1..Len(l) |-> ClassPatternEnd(l, i)], 1, Len(l)))

\* c.count('.')
CountDots(c) == Cardinality({k \in 1..Len(c) : c[k] = "."})

\* max(valid_classifications, key=lambda x: x.count('.')), None if there is none
BestClassification(l) ==
    LET class_matches == FindClassifications(l)
        valid == SelectSeq(class_matches, LAMBDA c : Len(c) <= 20 /\ CountDots(c) >= 2)
        best == Max({CountDots(valid[k]) : k \in 1..Len(valid)})
    IN IF Len(valid) = 0 THEN None
       ELSE valid[Min({k \in 1..Len(valid) : CountDots(valid[k]) = best})]

RECURSIVE RemoveValues(_, _, _)
\* for value in values: account = account.replace(value, ' ', 1)
RemoveValues(account, values, k) ==
    IF k > Len(values) THEN account
    ELSE RemoveValues(ReplaceFirst(account, values[k], <<" ">>), values, k + 1)

\* r'\b\d+\.\d+\b' at position i
LooseDecimalEnd(s, i) ==
    LET e1 == DigitRunEnd(s, i)
        e2 == DigitRunEnd(s, e1 + 2)
    IN IF BoundaryAt(s, i) /\ e1 >= i /\ e1 + 1 <= Len(s) /\ s[e1 + 1] = "."
          /\ e2 >= e1 + 2 /\ BoundaryAt(s, e2 + 1)
       THEN e2 ELSE 0

\* r'\b\d{1,3}\b(?!\d)' at position i
LooseNumberEnd(s, i) ==
    LET e == DigitRunEnd(s, i)
    IN IF BoundaryAt(s, i) /\ e >= i /\ e - i + 1 <= 3 /\ BoundaryAt(s, e + 1)
       THEN e ELSE 0

RECURSIVE BlankMatches(_, _, _)
\* re.sub(pattern, ' ', s) for the matches ms of the pattern in s, from position i on
BlankMatches(s, ms, i) ==
    IF Len(ms) = 0 THEN From(s, i)
    ELSE Slice(s, i, ms[1][1] - 1) \o <<" ">> \o BlankMatches(s, Tail(ms), ms[1][2] + 1)

BlankLooseDecimals(s) ==
    BlankMatches(s, Scan([i \in 1..Len(s) |-> LooseDecimalEnd(s, i)], 1, Len(s)), 1)

BlankLooseNumbers(s) ==
    BlankMatches(s, Scan([i \in 1..Len(s) |-> LooseNumberEnd(s, i)], 1, Len(s)), 1)

\* re.sub(r'^\d{1,6}\s*', '', account, count=1)
RemoveLeadingCode(account) ==
    LET d == DigitRunEnd(account, 1)
        e == IF d > 6 THEN 6 ELSE d
    IN IF e >= 1 THEN From(account, SpaceRunEnd(account, e + 1) + 1) ELSE account

extract_account_description(l, code, classification, values) ==
    LET a1 == IF code # None THEN RemoveLeadingCode(l) ELSE l
        a2 == IF classification # None THEN ReplaceAll(a1, classification, <<" ">>) ELSE a1
        a3 == RemoveValues(a2, values, 1)
        a4 == BlankLooseDecimals(a3)
    IN BlankLooseNumbers(a4)

\* the characters re.sub(r'[^\w\u00C0-\u00FA\s\-,/().]', ' ', text) keeps
IsDescriptionChar(c) == IsWord(c) \/ IsSpace(c) \/ c \in {"-", ",", "/", "(", ")", "."}

clean_description(text0) ==
    LET t1 == [i \in 1..Len(text0) |->
                  IF IsDescriptionChar(text0[i]) THEN text0[i] ELSE " "]
        t2 == Strip(CollapseSpaces(t1, 1))
        words == Split(t2)
        n == Len(words)
        keep == {i \in 1..n : Len(words[i]) > 2 \/ i = 1 \/ i = n}
        clean_words == SelectSeq([i \in 1..n |-> <<i, words[i]>>], LAMBDA p : p[1] \in keep)
    IN IF n >= 2
       THEN Strip(JoinSp([k \in 1..Len(clean_words) |-> clean_words[k][2]]))
       ELSE Strip(t2)

\* the if/elif chain of parse_entry_line that assigns the values:
\* <<previous_balance, debit, credit, current_balance>>
AssignEntryValues(values) ==
    LET n == Len(values)
    IN IF n >= 4 THEN <<values[n - 3], values[n - 2], values[n - 1], values[n]>>
       ELSE IF n = 3 THEN <<values[1], values[2], None, values[3]>>
       ELSE IF n = 2 THEN <<None, values[1], None, values[2]>>
       ELSE IF n = 1 THEN <<None, None, None, values[1]>>
       ELSE <<None, None, None, None>>

parse_entry_line(line0) ==
    LET l == Strip(line0)
        values == FindValues(l)
        code == MatchLeadingCode(l)
        classification == BestClassification(l)
        account == extract_account_description(l, code, classification, values)
        slots == AssignEntryValues(values)
    IN IF Len(values) = 0 THEN Rejected
       ELSE IF Len(account) < 2 THEN Rejected
       ELSE Entry(code, classification, clean_description(account),
                  slots[1], slots[2], slots[3], slots[4], None)

-----------------------------------------------------------------------------
(* extract_pdf_v2.py: the line parser *)

RECURSIVE SplitWideFrom(_, _, _)
\* re.split(r'\s{2,}', s): the part that starts at start, scanned from i on
SplitWideFrom(s, i, start) ==
    IF i > Len(s) THEN <<Slice(s, start, Len(s))>>
    ELSE LET e == SpaceRunEnd(s, i)
         IN IF e >= i + 1
            THEN <<Slice(s, start, i - 1)>> \o SplitWideFrom(s, e + 1, e + 1)
            ELSE SplitWideFrom(s, i + 1, start)

\* Python's s[:a] and s[a:] for a 0-based offset a >= 0
PyPrefix(s, a) == Slice(s, 1, IF a > Len(s) THEN Len(s) ELSE a)
PySuffix(s, a) == From(s, a + 1)

RECURSIVE SplitAroundValues(_, _, _, _)
\* the fallback loop of parse_line: the matches keep their offsets in the whole
\* line while `remaining` is cut after each match
SplitAroundValues(l, ms, k, remaining) ==
    IF k > Len(ms)
    THEN Split(Strip(remaining))
    ELSE Split(Strip(PyPrefix(remaining, ms[k][1] - 1)))
         \o <<SubSeq(l, ms[k][1], ms[k][2])>>
         \o SplitAroundValues(l, ms, k + 1, PySuffix(remaining, ms[k][2]))

\* re.match(r'^\d+\.\d+\.\d+\.\d+\.\d+$', part)
IsClassification5(part) == Len(part) > 0 /\ DottedEnd(part, 1, 5) = Len(part)

\* re.match(r'^\d{4,6}$', part)
IsLedgerCode(part) ==
    Len(part) >= 4 /\ Len(part) <= 6 /\ \A k \in 1..Len(part) : IsDigit(part[k])

\* re.match(monetary_pattern, part)
StartsWithValue(part) == Len(part) > 0 /\ MonetaryEnd(part, 1) > 0

\* re.search(r'\d{4,}', line)
HasLongNumber(l) == \E i \in 1..Len(l) : DigitRunEnd(l, i) - i + 1 >= 4

\* the if/elif chain of parse_line that assigns the monetary values:
\* <<previous_balance, debit, credit, current_balance>>
AssignByPosition(parts, monetary_indices) ==
    LET n == Len(monetary_indices)
        P(k) == parts[monetary_indices[k]]
    IN IF n >= 4 THEN <<P(1), P(2), P(3), P(4)>>
       ELSE IF n = 3 THEN <<P(1), P(2), P(3), None>>
       ELSE IF n = 2 THEN <<P(1), None, None, P(2)>>
       ELSE <<None, None, None, None>>

\* the first index of parts that satisfies the set I of indices, 0 if none
FirstIn(I) == IF I = {} THEN 0 ELSE Min(I)

ParseParts(parts) ==
    LET n == Len(parts)
        classification_idx == FirstIn({i \in 1..n : IsClassification5(parts[i])})
        classification == IF classification_idx = 0 THEN None ELSE parts[classification_idx]
        code_idx ==
            IF classification_idx = 0 THEN FirstIn({i \in 1..n : IsLedgerCode(parts[i])})
            ELSE IF classification_idx > 1 /\ IsLedgerCode(parts[classification_idx - 1])
            THEN classification_idx - 1
            ELSE 0
        code == IF code_idx = 0 THEN None ELSE parts[code_idx]
        monetary_indices ==
            SelectSeq([i \in 1..n |-> i], LAMBDA i : StartsWithValue(parts[i]))
        slots == AssignByPosition(parts, monetary_indices)
        start_idx ==
            IF code # None THEN FirstIn({i \in 1..n : parts[i] = code})
            ELSE IF classification # None THEN FirstIn({i \in 1..n : parts[i] = classification})
            ELSE 0
        end_idx == IF Len(monetary_indices) > 0 THEN monetary_indices[1] - 1 ELSE n
        account == Strip(JoinSp(Slice(parts, start_idx + 1, end_idx)))
    IN IF n < 3 THEN Rejected
       ELSE IF Len(account) = 0 THEN Rejected
       ELSE Entry(OrNone(code), OrNone(classification), account,
                  OrNone(slots[1]), OrNone(slots[2]), OrNone(slots[3]), OrNone(slots[4]),
                  None)

parse_line(line0) ==
    IF Len(line0) = 0 \/ Len(Strip(line0)) < 5 THEN Rejected
    ELSE LET l == Strip(line0)
             ms == monetary_matches(l)
             wide == SplitWideFrom(l, 1, 1)
             parts0 == IF Len(wide) < 3 THEN SplitAroundValues(l, ms, 1, l) ELSE wide
             parts == SelectSeq([i \in 1..Len(parts0) |-> Strip(parts0[i])],
                                LAMBDA q : Len(q) > 0)
         IN IF Len(ms) = 0
            THEN IF Len(l) > 20 /\ ~HasLongNumber(l)
                 THEN Entry(None, None, l, None, None, None, None, None)
                 ELSE Rejected
            ELSE ParseParts(parts)

-----------------------------------------------------------------------------
(* The input lines: an optional ledger code and an optional classification code
   in either order, an account name, and amounts, separated by one or two spaces *)

MaxAmounts == 5
MaxWords == 3
MaxNormalize == 2

CodeTokens == {<<>>, <<"1","0","0","1">>}
ClassTokens ==
    {<<>>,
     <<"1",".","1",".","0","1">>,
     <<"1",".","1",".","0","1",".","0","2","0",".","0","0","1">>,
     <<"1",".","1",".","1","0","0","1">>}
NameTokens ==
    {<<"C","A","I","X","A"," ","G","E","R","A","L">>,
     <<"C","A","I","X","A","4">>,
     <<"A","B">>,
     <<"B","a","n","c","o","s">>,
     <<"A","B","C",".",".",".",".",".",".",".",".">>}
AmountTokens ==
    <<(<<"9",",","9","9">>),
      (<<"1",".","5","0","0",",","0","0">>),
      (<<"2","0","0",",","0","0">>),
      (<<"-","5","0",",","0","0">>),
      (<<"1","6","5","0",",","0","0">>),
      (<<"7",",","0","0">>)>>
Separators == {<<" ">>, <<" "," ">>}

Shapes ==
    [code : CodeTokens, classification : ClassTokens, code_first : BOOLEAN,
     name : NameTokens, skip : {0, 1}, amounts : 0..MaxAmounts, sep : Separators]

RECURSIVE JoinWith(_, _)
\* the non-empty fields, joined by sep
JoinWith(fields, sep) ==
    IF Len(fields) = 0 THEN <<>>
    ELSE LET rest == JoinWith(Tail(fields), sep)
         IN IF Len(fields[1]) = 0 THEN rest
            ELSE IF Len(rest) = 0 THEN fields[1]
            ELSE fields[1] \o sep \o rest

\* the amounts of a shape: `amounts` consecutive tokens after the first `skip`
ShapeAmounts(sh) ==
    [k \in 1..Min({sh.amounts, Len(AmountTokens) - sh.skip}) |-> AmountTokens[sh.skip + k]]

Compose(sh) ==
    JoinWith((IF sh.code_first THEN <<sh.code, sh.classification>>
                               ELSE <<sh.classification, sh.code>>)
             \o <<sh.name>> \o ShapeAmounts(sh), sh.sep)

NoShape == [code |-> <<>>, classification |-> <<>>, code_first |-> FALSE,
            name |-> <<>>, skip |-> 0, amounts |-> 0, sep |-> <<" ">>]

NameWords ==
    {<<"C","A","I","X","A">>,
     <<"C","A","I","X","A","4">>,
     <<"B","A","N","C","O">>,
     <<"1","0","0","1">>,
     <<"1",".","1",".","0","1",".","0","2","0",".","0","0","1">>,
     <<"A","1","B","2">>,
     <<"G","E","R","A","L",".">>}

\* the account names given to the normalizer: up to MaxWords words, single-spaced
NameInputs ==
    {JoinSp(ws) : ws \in UNION {[1..n -> NameWords] : n \in 1..MaxWords}}

-----------------------------------------------------------------------------
(* The line parsers applied to one line *)

\* the variables of the document parsers, unused
IdleDoc ==
    /\ page = <<>>
    /\ page_num = 0
    /\ line_idx = 0
    /\ bold_categories = <<>>
    /\ parent_categories = <<>>
    /\ all_data = <<>>
    /\ current_parent = None
    /\ entries = <<>>
    /\ header = EmptyDict
    /\ all_text = <<>>
    /\ log = <<>>
    /\ pages = <<>>
    /\ tokens = <<>>
    /\ resolved = <<>>
    /\ pc = "parse"

\* the variables of the line parsers, unused
IdleLine ==
    /\ shape = NoShape
    /\ line = <<>>
    /\ parser = "none"
    /\ entry = Rejected

InitLine ==
    /\ prog = "line"
    /\ shape \in Shapes
    /\ line = Compose(shape)
    /\ parser = "none"
    /\ entry = Rejected
    /\ names = <<>>
    /\ IdleDoc

\* extract_pdf.parse_data_line(line)
CallParseDataLine ==
    /\ prog = "line"
    /\ parser = "none"
    /\ parser' = "parse_data_line"
    /\ entry' = parse_data_line(line)
    /\ UNCHANGED <<prog, pc, tokVars, shape, line, names, docVars>>

\* final_balancete_parser.parse_entry_line(line)
CallParseEntryLine ==
    /\ prog = "line"
    /\ parser = "none"
    /\ parser' = "parse_entry_line"
    /\ entry' = parse_entry_line(line)
    /\ UNCHANGED <<prog, pc, tokVars, shape, line, names, docVars>>

\* extract_pdf_v2.parse_line(line)
CallParseLine ==
    /\ prog = "line"
    /\ parser = "none"
    /\ parser' = "parse_line"
    /\ entry' = parse_line(line)
    /\ UNCHANGED <<prog, pc, tokVars, shape, line, names, docVars>>

NextLine == CallParseDataLine \/ CallParseEntryLine \/ CallParseLine

SpecLine == InitLine /\ [][NextLine]_vars

-----------------------------------------------------------------------------
(* The normalizer applied again and again to one account name *)

InitName ==
    /\ prog = "name"
    /\ IdleLine
    /\ IdleDoc
    /\ \E n \in NameInputs : names = <<n>>

\* name = clean_account_name_final(name)
Normalize ==
    /\ prog = "name"
    /\ Len(names) <= MaxNormalize
    /\ names' = Append(names, clean_account_name_final(names[Len(names)]))
    /\ UNCHANGED <<prog, pc, tokVars, lineVars, docVars>>

NextName == Normalize

SpecName == InitName /\ [][NextName]_vars

-----------------------------------------------------------------------------
(* The claims about the line parsers *)

\* the monetary tokens of the line as extract_pdf.py and extract_pdf_v2.py find them
MonetaryTokens == Groups(Strip(line), monetary_matches(Strip(line)))
\* the monetary tokens of the line as final_balancete_parser.py finds them
ValueTokens == FindValues(Strip(line))

\* <<previous_balance, debit, credit, current_balance>> of a record
Slots(e) == <<e.previous_balance, e.debit, e.credit, e.current_balance>>

LastFour(V) == <<V[Len(V) - 3], V[Len(V) - 2], V[Len(V) - 1], V[Len(V)]>>

\* C1: in parse_data_line and in parse_entry_line, an accepted line with n >= 4
\* monetary tokens V gets previous_balance, debit, credit, current_balance =
\* V[n-4], V[n-3], V[n-2], V[n-1] (0-based): the last four tokens.
C1_LastFourEverywhere ==
    /\ (parser = "parse_data_line" /\ entry.ok /\ Len(MonetaryTokens) >= 4)
          => Slots(entry) = LastFour(MonetaryTokens)
    /\ (parser = "parse_entry_line" /\ entry.ok /\ Len(ValueTokens) >= 4)
          => Slots(entry) = LastFour(ValueTokens)

\* C2: in parse_data_line and in parse_entry_line, an accepted line with exactly
\* three monetary tokens gets previous_balance = V[0], debit = V[1], credit = V[2]
\* and current_balance = null.
C2_ThreeTokensEverywhere ==
    /\ (parser = "parse_data_line" /\ entry.ok /\ Len(MonetaryTokens) = 3)
          => Slots(entry) = <<MonetaryTokens[1], MonetaryTokens[2], MonetaryTokens[3], None>>
    /\ (parser = "parse_entry_line" /\ entry.ok /\ Len(ValueTokens) = 3)
          => Slots(entry) = <<ValueTokens[1], ValueTokens[2], ValueTokens[3], None>>

\* C3: in parse_data_line and in parse_entry_line, an accepted line with exactly
\* two monetary tokens gets previous_balance = V[0], current_balance = V[1], and
\* debit and credit null.
C3_TwoTokensEverywhere ==
    /\ (parser = "parse_data_line" /\ entry.ok /\ Len(MonetaryTokens) = 2)
          => Slots(entry) = <<MonetaryTokens[1], None, None, MonetaryTokens[2]>>
    /\ (parser = "parse_entry_line" /\ entry.ok /\ Len(ValueTokens) = 2)
          => Slots(entry) = <<ValueTokens[1], None, None, ValueTokens[2]>>

\* C4: in parse_data_line, parse_line and parse_entry_line, an accepted line with
\* exactly one monetary token gets current_balance = V[0] and previous_balance,
\* debit and credit null.
C4_OneTokenEverywhere ==
    /\ (parser \in {"parse_data_line", "parse_line"} /\ entry.ok /\ Len(MonetaryTokens) = 1)
          => Slots(entry) = <<None, None, None, MonetaryTokens[1]>>
    /\ (parser = "parse_entry_line" /\ entry.ok /\ Len(ValueTokens) = 1)
          => Slots(entry) = <<None, None, None, ValueTokens[1]>>

\* the text before the first monetary token of the line
ValuePrefix ==
    LET l == Strip(line)
        ms == monetary_matches(l)
    IN IF Len(ms) = 0 THEN l ELSE Slice(l, 1, ms[1][1] - 1)

RECURSIVE DottedRunEnd(_, _)
\* the end of the longest chain of ".digits" after position e
DottedRunEnd(s, e) ==
    IF e + 1 <= Len(s) /\ s[e + 1] = "." /\ DigitRunEnd(s, e + 2) >= e + 2
    THEN DottedRunEnd(s, DigitRunEnd(s, e + 2)) ELSE e

\* \d+(\.\d+){2,} at position i: the end of the match, 0 if none
DeepCodeEnd(s, i) ==
    LET e1 == DigitRunEnd(s, i)
        e == DottedRunEnd(s, e1)
    IN IF e1 >= i /\ CountDots(Slice(s, i, e)) >= 2 THEN e ELSE 0

\* the dotted codes of depth >= 3 in s, as <<start, end>>
DeepCodes(s) == Scan([i \in 1..Len(s) |-> DeepCodeEnd(s, i)], 1, Len(s))

\* the whole digit runs of s that lie outside every dotted code of depth >= 3
FreeDigitRuns(s) ==
    LET deep == DeepCodes(s)
    IN {SubSeq(s, i, DigitRunEnd(s, i)) :
          i \in {j \in 1..Len(s) :
                   /\ IsDigit(s[j])
                   /\ (j = 1 \/ ~IsDigit(s[j - 1]))
                   /\ \A k \in 1..Len(deep) : ~(deep[k][1] <= j /\ j <= deep[k][2])}}

\* C5: when the prefix of a line accepted by parse_data_line holds a dotted code
\* of depth >= 3, the returned code is never a digit run taken from inside that
\* dotted code: a returned code is a digit run of the prefix outside every such code.
C5_DeepCodeNeverLedgerCode ==
    (parser = "parse_data_line" /\ entry.ok /\ Len(DeepCodes(ValuePrefix)) > 0
        /\ entry.code # None)
       => entry.code \in FreeDigitRuns(ValuePrefix)

\* C9: clean_account_name_final is idempotent: normalizing a normalized name
\* returns it unchanged.
C9_NormalizerIdempotent ==
    (prog = "name" /\ Len(names) >= 3) => names[3] = names[2]

\* the account names of the input lines that carry no extraction artifact
PlainNames == {<<"C","A","I","X","A"," ","G","E","R","A","L">>}

\* a line <classification of >= 3 segments> <4-6 digit ledger code> <account name>
\* <four amounts>
IsExampleShape ==
    /\ Len(shape.classification) > 0
    /\ Len(shape.code) > 0
    /\ ~shape.code_first
    /\ shape.name \in PlainNames
    /\ Len(ShapeAmounts(shape)) = 4

\* C10: for a line <classification> <ledger code> <account name> <four amounts>,
\* parse_data_line and parse_entry_line return classification = the dotted code,
\* code = the ledger code, account = the name and the four amounts in the order
\* previous_balance, debit, credit, current_balance.
C10_ExampleLineParsed ==
    (parser \in {"parse_data_line", "parse_entry_line"} /\ IsExampleShape)
       => /\ entry.ok
          /\ entry.classification = shape.classification
          /\ entry.code = shape.code
          /\ entry.account = shape.name
          /\ Slots(entry) = IF parser = "parse_data_line" THEN LastFour(MonetaryTokens)
                            ELSE LastFour(ValueTokens)

-----------------------------------------------------------------------------
(* extract_pdf.py: the Emphasis Signal Extractor *)

\* the characters of a visual line: its first `bold` characters are emphasized
LineChars(ln) ==
    [i \in 1..Len(ln.text) |->
        [text |-> ln.text[i], top |-> ln.top, x0 |-> i, bold |-> i <= ln.bold]]

RECURSIVE PageChars(_, _)
\* page.chars: the characters of the lines of the page from line k on
PageChars(pg, k) ==
    IF k > Len(pg) THEN <<>> ELSE LineChars(pg[k]) \o PageChars(pg, k + 1)

\* a dict as the sequence of its <<key, value>> pairs in insertion order
DictHas(d, key) == \E k \in 1..Len(d) : d[k][1] = key
DictGet(d, key) == d[CHOOSE k \in 1..Len(d) : d[k][1] = key][2]
DictSet(d, key, val) ==
    IF DictHas(d, key)
    THEN [k \in 1..Len(d) |-> IF d[k][1] = key THEN <<key, val>> ELSE d[k]]
    ELSE Append(d, <<key, val>>)

Abs(x) == IF x < 0 THEN -x ELSE x

\* the three places of extract_bold_categories that store a run: reading
\* bold_by_line[y_key] of the defaultdict creates the entry, the longer run wins
StoreRun(st) ==
    LET y_key == IF st.has_y /\ st.y # 0 THEN st.y ELSE 0
        run == Strip(st.current_bold)
        touched == IF DictHas(st.dict, y_key) THEN st.dict
                   ELSE Append(st.dict, <<y_key, <<>>>>)
    IN IF Len(run) > Len(DictGet(touched, y_key))
       THEN DictSet(touched, y_key, run) ELSE touched

\* one iteration of the loop of extract_bold_categories
BoldStep(st, ch) ==
    IF ch.bold /\ Len(ch.text) > 0
    THEN IF ~st.has_y \/ Abs(ch.top - st.y) < 3
         THEN [st EXCEPT !.current_bold = st.current_bold \o <<ch.text>>,
                         !.has_y = TRUE, !.y = ch.top]
         ELSE [dict |-> IF Len(Strip(st.current_bold)) > 5 THEN StoreRun(st) ELSE st.dict,
               current_bold |-> <<ch.text>>, has_y |-> TRUE, y |-> ch.top]
    ELSE IF Len(Strip(st.current_bold)) > 0
         THEN [dict |-> StoreRun(st), current_bold |-> <<>>, has_y |-> FALSE, y |-> 0]
         ELSE st

RECURSIVE BoldLoop(_, _, _)
\* the state of an iteration is computed before the next iteration starts
BoldLoop(st, chars, k) ==
    IF k > Len(chars) THEN st
    ELSE LET nx == BoldStep(st, chars[k])
         IN IF nx.has_y \in BOOLEAN THEN BoldLoop(nx, chars, k + 1) ELSE nx

extract_bold_categories(chars) ==
    LET st == BoldLoop([dict |-> <<>>, current_bold |-> <<>>, has_y |-> FALSE, y |-> 0],
                       chars, 1)
    IN IF Len(Strip(st.current_bold)) > 0 THEN StoreRun(st) ELSE st.dict

-----------------------------------------------------------------------------
(* extract_pdf.py: the Header Extractor *)

HeaderKeys == {"company", "cnpj", "report_type", "period", "issue_date", "time", "page",
               "book_number"}

\* the dict extract_header_info and extract_header start from
NullHeader == [k \in HeaderKeys |-> None]

Newline == "\n"

\* \s in the patterns of the header: a blank or the end of a line
IsWs(c) == c = " " \/ c = Newline

RECURSIVE WsRunEnd(_, _)
WsRunEnd(s, i) ==
    IF i <= Len(s) /\ IsWs(s[i]) THEN WsRunEnd(s, i + 1) ELSE i - 1

RECURSIVE JoinNl(_)
\* '\n'.join(ls)
JoinNl(ls) ==
    IF Len(ls) = 0 THEN <<>>
    ELSE IF Len(ls) = 1 THEN ls[1]
    ELSE ls[1] \o <<Newline>> \o JoinNl(Tail(ls))

RECURSIVE SplitLines(_)
\* text.split('\n')
SplitLines(s) ==
    LET N == {i \in 1..Len(s) : s[i] = Newline}
    IN IF N = {} THEN <<s>>
       ELSE <<Slice(s, 1, Min(N) - 1)>> \o SplitLines(From(s, Min(N) + 1))

\* page.extract_text(): the visual lines of the page, top to bottom
PageText(pg) == JoinNl([k \in 1..Len(pg) |-> pg[k].text])

\* the literal lit stands at position i of s
LitAt(s, i, lit) == i + Len(lit) - 1 <= Len(s) /\ SubSeq(s, i, i + Len(lit) - 1) = lit

\* a pattern of fixed length stands at position q of s; "d" in the pattern is \d
ShapeAt(s, q, pattern) ==
    /\ q + Len(pattern) - 1 <= Len(s)
    /\ \A j \in 1..Len(pattern) :
          IF pattern[j] = "d" THEN IsDigit(s[q + j - 1]) ELSE s[q + j - 1] = pattern[j]

\* \d{2}\.\d{3}\.\d{3}/\d{4}-\d{2}
CnpjPattern == <<"d","d",".","d","d","d",".","d","d","d","/","d","d","d","d","-","d","d">>
\* \d{2}/\d{2}/\d{4}
DatePattern == <<"d","d","/","d","d","/","d","d","d","d">>
\* \d{2}:\d{2}:\d{2}
TimePattern == <<"d","d",":","d","d",":","d","d">>

\* re.search(label \s* (pattern), s): group 1, None if there is no match.  The
\* pattern starts with a digit, so \s* takes the whole run of white space.
SearchLabelled(s, label, pattern) ==
    LET I == {i \in 1..Len(s) :
                 /\ LitAt(s, i, label)
                 /\ ShapeAt(s, WsRunEnd(s, i + Len(label)) + 1, pattern)}
    IN IF I = {} THEN None
       ELSE LET q == WsRunEnd(s, Min(I) + Len(label)) + 1
            IN SubSeq(s, q, q + Len(pattern) - 1)

\* re.search(label \s* (\d+), s): group 1, None if there is no match
SearchLabelledNumber(s, label) ==
    LET I == {i \in 1..Len(s) :
                 LET q == WsRunEnd(s, i + Len(label)) + 1
                 IN LitAt(s, i, label) /\ DigitRunEnd(s, q) >= q}
    IN IF I = {} THEN None
       ELSE LET q == WsRunEnd(s, Min(I) + Len(label)) + 1
            IN SubSeq(s, q, DigitRunEnd(s, q))

\* (date)\s*-\s*(date) at position q of s: the position of the second date, 0 if
\* there is no match
PeriodAt(s, q) ==
    LET d == WsRunEnd(s, q + Len(DatePattern)) + 1
        q2 == WsRunEnd(s, d + 1) + 1
    IN IF ShapeAt(s, q, DatePattern) /\ d <= Len(s) /\ s[d] = "-"
          /\ ShapeAt(s, q2, DatePattern)
       THEN q2 ELSE 0

\* f"{match.group(1)} - {match.group(2)}" of a period that starts at q
PeriodText(s, q) ==
    SubSeq(s, q, q + Len(DatePattern) - 1) \o <<" ", "-", " ">>
       \o SubSeq(s, PeriodAt(s, q), PeriodAt(s, q) + Len(DatePattern) - 1)

EmpresaLabel == <<"E","m","p","r","e","s","a",":">>
FolhaLabel == <<"F","o","l","h","a",":">>

\* \s+Folha: after position e of s
FolhaFollows(s, e) ==
    LET w == WsRunEnd(s, e + 1)
    IN w >= e + 1 /\ LitAt(s, w + 1, FolhaLabel)

\* re.search(r'Empresa:\s*(.+?)(?:\s+Folha:|$)', line): group(1).strip(), None if
\* there is no match.  \s* takes the white space, the lazy group ends at the first
\* place followed by \s+Folha: or at the end of the line; when only white space
\* follows the label, \s* gives its last character to the group.
CompanyOf(l) ==
    LET i == IndexFrom(l, EmpresaLabel, 1)
        q == WsRunEnd(l, i + Len(EmpresaLabel)) + 1
        e == Min({k \in q..Len(l) : k = Len(l) \/ FolhaFollows(l, k)})
    IN IF i = 0 \/ i + Len(EmpresaLabel) > Len(l) THEN None
       ELSE IF q > Len(l) THEN <<>>
       ELSE Strip(SubSeq(l, q, e))

\* the loop "for line in lines[:5]", which stops at the first line with the label
CompanyScanLines == 5

FirstCompany(ls) ==
    LET I == {k \in 1..Min({Len(ls), CompanyScanLines}) : Contains(ls[k], EmpresaLabel)}
    IN IF I = {} THEN None ELSE CompanyOf(ls[Min(I)])

BalanceteWord == <<"B","A","L","A","N","C","E","T","E">>
ConsolidadoWord == <<"C","O","N","S","O","L","I","D","A","D","O">>

\* the search for the period: its start, 0 if there is none
PeriodStart(s, label) ==
    LET I == {i \in 1..Len(s) :
                 LitAt(s, i, label) /\ PeriodAt(s, WsRunEnd(s, i + Len(label)) + 1) > 0}
    IN IF I = {} THEN 0 ELSE WsRunEnd(s, Min(I) + Len(label)) + 1

extract_header_info(text) ==
    LET period_start == PeriodStart(text, <<"P","e","r","i'","o","d","o",":">>)
    IN [company |-> FirstCompany(SplitLines(text)),
        cnpj |-> SearchLabelled(text, <<"C",".","N",".","P",".","J",".",":">>, CnpjPattern),
        book_number |->
            SearchLabelledNumber(text, <<"N","u'","m","e","r","o"," ","l","i","v","r","o",":">>),
        period |-> IF period_start = 0 THEN None ELSE PeriodText(text, period_start),
        issue_date |->
            SearchLabelled(text, <<"E","m","i","s","s","a~","o",":">>, DatePattern),
        time |-> SearchLabelled(text, <<"H","o","r","a",":">>, TimePattern),
        report_type |->
            IF ~Contains(Upper(text), BalanceteWord) THEN None
            ELSE IF Contains(Upper(text), ConsolidadoWord)
            THEN BalanceteWord \o <<" ">> \o ConsolidadoWord
            ELSE BalanceteWord,
        page |-> SearchLabelledNumber(text, FolhaLabel)]

-----------------------------------------------------------------------------
(* extract_pdf.py: the Category Stack Resolver, extract_data_from_pdf *)

MaxPages == 2
MaxPageLines == 2
MaxLines == 3

\* the visual lines a page is made of: a text and the number of its leading
\* characters that are printed in bold
DocLines ==
    {[text |-> <<"A","T","I","V","O"," ","C","I","R","C","U","L","A","N","T","E">>, bold |-> 16],
     [text |-> <<"A","T","I","V","O"," ","C","I","R","C","U","L","A","N","T","E">>, bold |-> 0],
     [text |-> <<"A","t","i","v","o"," ","C"," ","9",",","9","9">>, bold |-> 7],
     [text |-> <<"A","T","I","V","O"," ","C">>, bold |-> 7],
     [text |-> <<"1","0","0","1"," ","C","A","I","X","A"," ","G","E","R","A","L"," ","9",",","9","9">>,
      bold |-> 0],
     [text |-> <<"1","0","0","1"," ","C","A","I","X","A"," ","G","E","R","A","L"," ","9",",","9","9">>,
      bold |-> 21],
     [text |-> <<"P","A","S","S","I","V","O"," ","7",",","0","0">>, bold |-> 7],
     [text |-> <<"1",".","1",".","0","1",".","0","2","0",".","0","0","1"," ","C","A","I","X","A"," ",
                 "9",",","9","9">>, bold |-> 25],
     [text |-> <<"A","B"," ","7",",","0","0">>, bold |-> 0],
     [text |-> <<"1",".","1",".","0","1"," ","B","A","N","C","O","S"," ","7",",","0","0">>,
      bold |-> 18],
     [text |-> <<"A","T","I","V","O">>, bold |-> 5]}

\* the vertical distance of a line to the line above it
Gaps == {2, 4, 10}

\* the lines of the report header, printed at the top of a page
HeaderLines ==
    {[text |-> <<"E","m","p","r","e","s","a",":"," ","A","C","M","E"," ","F","o","l","h","a",":",
                 " ","7">>, bold |-> 0],
     [text |-> <<"B","A","L","A","N","C","E","T","E">>, bold |-> 0],
     [text |-> <<"F","o","l","h","a",":">>, bold |-> 0]}

RECURSIVE PagesOf(_)
\* the pages of n visual lines: the first line of a page is a line of the header
\* or of the body, the other lines are lines of the body
PagesOf(n) ==
    IF n = 0 THEN {<<>>}
    ELSE IF n = 1
    THEN {<<[text |-> v.text, bold |-> v.bold, top |-> 10]>> : v \in DocLines \cup HeaderLines}
    ELSE {Append(pg, [text |-> v.text, bold |-> v.bold, top |-> pg[Len(pg)].top + g]) :
             pg \in PagesOf(n - 1), v \in DocLines, g \in Gaps}

\* the header after the page of number n was opened: a page without text is
\* skipped, the header is built from the text of the page of number 1
HeaderAfter(h, n, pg) ==
    IF Len(pg) = 0 THEN h
    ELSE IF n = 1 THEN extract_header_info(PageText(pg))
    ELSE h

\* line_y: the top of the first character of the page equal to line[0]
FirstCharTop(chars, c) ==
    chars[Min({i \in 1..Len(chars) : chars[i].text = c})].top

HasCharOf(chars, c) == \E i \in 1..Len(chars) : chars[i].text = c

\* cleaned_bold.upper() in line.upper(), or its first 15 characters when it is
\* longer than 10
BoldTextInLine(cleaned_bold, l) ==
    \/ Contains(Upper(l), Upper(cleaned_bold))
    \/ Len(cleaned_bold) > 10 /\ Contains(Upper(l), Upper(PyPrefix(cleaned_bold, 15)))

\* whether the k-th entry of bold_categories makes the line a category
IsBoldMatch(l, y_normalized, bolds, k) ==
    LET cleaned_bold == clean_account_name_final(bolds[k][2])
    IN /\ Abs(y_normalized - bolds[k][1]) < 5
       /\ Len(cleaned_bold) > 5
       /\ BoldTextInLine(cleaned_bold, l)
       /\ Classification5Search(l) = <<>>

\* the index of the first entry of bold_categories that makes the line a
\* category, 0 if there is none
FirstBoldMatch(l, chars, bolds) ==
    IF ~HasCharOf(chars, l[1]) THEN 0
    ELSE FirstIn({k \in 1..Len(bolds) : IsBoldMatch(l, FirstCharTop(chars, l[1]), bolds, k)})

\* a push that removes nothing from the stack
PushCategory_KeepAll(stack, cleaned_bold) == Append(stack, cleaned_bold)

\* a push that compares the entries with the new name as they are written
PushCategory_CaseSensitive(stack, cleaned_bold) ==
    Append(SelectSeq(stack, LAMBDA c : ~StartsWith(cleaned_bold, c)), cleaned_bold)

\* a push that puts the new name below the entries it keeps
PushCategory_Below(stack, cleaned_bold) ==
    <<cleaned_bold>> \o SelectSeq(stack, LAMBDA c : ~StartsWith(Upper(cleaned_bold), Upper(c)))

\* a push that removes the prefixes and forgets the new name
PushCategory_PruneOnly(stack, cleaned_bold) ==
    SelectSeq(stack, LAMBDA c : ~StartsWith(Upper(cleaned_bold), Upper(c)))

\* parent_categories after the push of a category
PushCategory(stack, cleaned_bold) ==
    Append(SelectSeq(stack, LAMBDA c : ~StartsWith(Upper(cleaned_bold), Upper(c))),
           cleaned_bold)

\* the record of a category line takes the top of the stack, as a detail does
CategoryRecord_Inherit(e, stack) == [e EXCEPT !.parent_category = stack[Len(stack)]]

\* the record appended for a category line, stack being the stack after the push
CategoryRecord(e, stack) == [e EXCEPT !.parent_category = None]

\* the oldest category instead of the most recent one
DetailRecord_Oldest(e, stack) ==
    [e EXCEPT !.parent_category = IF Len(stack) > 0 THEN stack[1] ELSE None]

\* the record appended for a line that is no category
DetailRecord(e, stack) ==
    IF Len(stack) > 0 THEN [e EXCEPT !.parent_category = stack[Len(stack)]] ELSE e

\* a stack that is created anew for every page
StackOnNextPage_Fresh(stack) == <<>>

\* parent_categories when the next page is opened: the list is created before the
\* loop over the pages and the loop does not touch it between two pages
StackOnNextPage(stack) == stack

\* the record put in front of the list
AppendRecord_Front(data, e) == <<e>> \o data

\* all_data.append(entry)
AppendRecord(data, e) == Append(data, e)

InitPdf ==
    /\ prog = "extract_pdf"
    /\ IdleLine
    /\ names = <<>>
    /\ IdleDoc

\* for page_num, page in enumerate(pdf.pages, 1): the next page, once the lines of
\* the page before it are done; a page without text is skipped
OpenPage ==
    /\ prog = "extract_pdf"
    /\ line_idx = Len(page)
    /\ page_num < MaxPages
    /\ \E n \in 0..MaxPageLines : \E pg \in PagesOf(n) :
          /\ Len(log) + n <= MaxLines
          /\ page' = pg
          /\ bold_categories' = extract_bold_categories(PageChars(pg, 1))
          /\ header' = HeaderAfter(header, page_num + 1, pg)
    /\ page_num' = page_num + 1
    /\ line_idx' = 0
    /\ parent_categories' = StackOnNextPage(parent_categories)
    /\ UNCHANGED <<prog, pc, tokVars, lineVars, names, all_data, current_parent, entries, all_text, log>>

\* the history of one line: whether it was taken as a category, the index of its
\* record in the output (0: none) and the top of the stack when it was read
LogOf(is_category, appended, stack, data) ==
    [is_category |-> is_category,
     index |-> IF appended THEN Len(data) + 1 ELSE 0,
     top |-> IF Len(stack) = 0 THEN None ELSE stack[Len(stack)]]

\* one iteration of "for line_idx, line in enumerate(lines)"; the values the
\* iteration computes once are bound once
ProcessLine ==
    /\ prog = "extract_pdf"
    /\ line_idx < Len(page)
    /\ line_idx' = line_idx + 1
    /\ \E l \in {Strip(page[line_idx + 1].text)} :
       \E skipped \in {Len(l) < 3 \/ HasSkipKeyword(l)} :
       \E k \in {IF skipped THEN 0
                 ELSE FirstBoldMatch(l, PageChars(page, 1), bold_categories)} :
       \E e \in {IF skipped THEN Rejected ELSE parse_data_line(l)} :
          IF skipped
          THEN /\ UNCHANGED <<parent_categories, all_data>>
               /\ log' = Append(log, LogOf(FALSE, FALSE, parent_categories, all_data))
          ELSE IF k > 0
          THEN /\ parent_categories' =
                     PushCategory(parent_categories, clean_account_name_final(bold_categories[k][2]))
               /\ all_data' = IF e.ok
                              THEN AppendRecord(all_data, CategoryRecord(e, parent_categories'))
                              ELSE all_data
               /\ log' = Append(log, LogOf(TRUE, e.ok, parent_categories, all_data))
          ELSE /\ all_data' =
                     IF e.ok
                     THEN AppendRecord(all_data, DetailRecord(e, parent_categories))
                     ELSE all_data
               /\ log' = Append(log, LogOf(FALSE, e.ok, parent_categories, all_data))
               /\ UNCHANGED parent_categories
    /\ UNCHANGED <<prog, pc, tokVars, lineVars, names, page, page_num, bold_categories, current_parent,
                   entries, header, all_text>>

NextPdf == OpenPage \/ ProcessLine

SpecPdf == InitPdf /\ [][NextPdf]_vars

-----------------------------------------------------------------------------
(* final_balancete_parser.py: extract_data *)

\* re.search of a pattern whose only special character is ".", any character
WildContains(s, pat) ==
    \E i \in 1..(Len(s) - Len(pat) + 1) :
        \A j \in 1..Len(pat) : pat[j] = "." \/ s[i + j - 1] = pat[j]

\* the patterns of skip_line without an anchor or a star
skip_patterns ==
    {<<"E","m","p","r","e","s","a",":">>,
     <<"C",".","N",".","P",".","J",".">>,
     <<"P","e","r","i'","o","d","o",":">>,
     <<"E","m","i","s","s","a~","o",":">>,
     <<"H","o","r","a",":">>,
     <<"F","o","l","h","a",":">>,
     <<"C","O","N","S","O","L","I","D","A","D","O">>,
     <<"l","i","v","r","o",":">>,
     <<"C","o'","d","i","g","o"," ","C","l","a","s","s","i","f","i","c","a","c,","a~","o">>,
     <<"R","E","S","U","M","O"," ","D","O"," ","B","A","L","A","N","C","E","T","E">>,
     <<"C","O","N","T","A","S"," ","D","E","V","E","D","O","R","A","S">>,
     <<"C","O","N","T","A","S"," ","C","R","E","D","O","R","A","S">>,
     <<"R","E","S","U","L","T","A","D","O"," ","D","O"," ","M","E","S">>,
     <<"R","E","S","U","L","T","A","D","O"," ","D","O"," ","E","X","E","R","C","I'","C","I","O">>,
     <<"R","e","g","."," ","n","o"," ","C","R","C">>,
     <<"C","P","F",":">>}

\* re.search('ATIVO.*PASSIVO.*RECEITAS', line)
HasSummaryHeading(l) ==
    LET a == IndexFrom(l, <<"A","T","I","V","O">>, 1)
        p == IF a = 0 THEN 0 ELSE IndexFrom(l, <<"P","A","S","S","I","V","O">>, a + 5)
    IN p > 0 /\ IndexFrom(l, <<"R","E","C","E","I","T","A","S">>, p + 7) > 0

skip_line(l) ==
    \/ Len(Strip(l)) < 8
    \/ \E pat \in skip_patterns : WildContains(l, pat)
    \/ HasSummaryHeading(l)
    \/ l = <<"B","A","L","A","N","C","E","T","E">>
    \/ Len(l) >= 4 /\ \A i \in 1..4 : l[i] = "_"

\* str.isupper(): a cased character, and no lower-case one
IsUpperStr(s) ==
    /\ \E i \in 1..Len(s) : IsUpperChar(s[i])
    /\ \A i \in 1..Len(s) : ~IsLowerChar(s[i])

is_category(e) ==
    /\ e.ok
    /\ e.account # None /\ Len(e.account) > 0
    /\ IsUpperStr(e.account)
    /\ Len(Split(e.account)) <= 6
    /\ (e.classification = None \/ Len(e.classification) = 0
          \/ CountDots(e.classification) <= 2)

\* the lines a text is made of
TextLines ==
    {<<"P","A","S","S","I","V","O"," ","7",",","0","0">>,
     <<"1",".","1",".","0","1"," ","B","A","N","C","O","S"," ","7",",","0","0">>,
     <<"1","0","0","1"," ","C","a","i","x","a"," ","G","e","r","a","l"," ","9",",","9","9">>,
     <<"1",".","1",".","0","1",".","0","2","0",".","0","0","1"," ","C","A","I","X","A"," ",
       "9",",","9","9">>,
     <<"A","T","I","V","O"," ","C","I","R","C","U","L","A","N","T","E">>,
     <<"F","o","l","h","a",":"," ","1"," ","9",",","9","9">>,
     <<"C","/","N","-","P","*","J"," ","9",",","9","9">>,
     <<"A","B"," ","7",",","0","0">>}

InitFinal ==
    /\ prog = "final"
    /\ IdleLine
    /\ names = <<>>
    /\ IdleDoc

\* one iteration of "for line in lines" of extract_data, on the next line of the
\* text; a skipped line is not parsed
ExtractDataStep ==
    /\ prog = "final"
    /\ Len(log) < MaxLines
    /\ \E l \in TextLines :
       \E e \in {IF skip_line(l) THEN Rejected ELSE parse_entry_line(l)} :
       \E category \in {is_category(e)} :
          IF ~e.ok
          THEN /\ UNCHANGED <<current_parent, entries>>
               /\ log' = Append(log, [is_category |-> FALSE, index |-> 0,
                                       top |-> current_parent])
          ELSE /\ current_parent' = IF category THEN e.account ELSE current_parent
               /\ entries' = Append(entries,
                                     IF category THEN e
                                     ELSE [e EXCEPT !.parent_category = current_parent])
               /\ log' = Append(log, [is_category |-> category,
                                       index |-> Len(entries) + 1,
                                       top |-> current_parent])
    /\ UNCHANGED <<prog, pc, tokVars, lineVars, names, page, page_num, line_idx, bold_categories,
                   parent_categories, all_data, header, all_text>>

NextFinal == ExtractDataStep

SpecFinal == InitFinal /\ [][NextFinal]_vars

-----------------------------------------------------------------------------
(* final_balancete_parser.py: extract_header and parse_balancete_pdf *)

\* the lines of the text that extract_header reads
HeaderScanLines == 25

\* [A-ZÀ-Ú\s]
IsCompanyChar(c) == IsUpperChar(c) \/ IsWs(c)

\* the ends of the lazy group ([A-ZÀ-Ú\s]+?) that starts at q: the
\* places followed by \s+Folha: or by the end of the line
CompanyEnds(l, q) ==
    {e \in q..Len(l) :
        /\ \A j \in q..e : IsCompanyChar(l[j])
        /\ (e = Len(l) \/ FolhaFollows(l, e))}

\* the starts of the group for the label at i: \s* takes any part of the white
\* space after the label
CompanyStarts(l, i) ==
    {q \in (i + Len(EmpresaLabel))..(WsRunEnd(l, i + Len(EmpresaLabel)) + 1) :
        CompanyEnds(l, q) # {}}

\* re.search(r'Empresa:\s*([A-ZÀ-Ú\s]+?)(?:\s+Folha:|$)', line):
\* group(1).strip(), None if there is no match; \s* is greedy and the group lazy
fb_CompanyOf(l) ==
    LET I == {i \in 1..Len(l) : LitAt(l, i, EmpresaLabel) /\ CompanyStarts(l, i) # {}}
        q == Max(CompanyStarts(l, Min(I)))
    IN IF I = {} THEN None ELSE Strip(SubSeq(l, q, Min(CompanyEnds(l, q))))

\* re.search of a pattern without label
SearchPattern(s, pattern) == SearchLabelled(s, <<>>, pattern)

\* the body of the loop of extract_header for one line
fb_HeaderStep(h, l) ==
    LET cnpj == SearchPattern(l, CnpjPattern)
        book == SearchLabelledNumber(Upper(l), <<"L","I","V","R","O",":">>)
        period_start == PeriodStart(l, <<>>)
        issue == SearchLabelled(l, <<"E","m","i","s","s","a~","o",":">>, DatePattern)
        time == SearchLabelled(l, <<"H","o","r","a",":">>, TimePattern)
    IN [company |->
            IF Contains(l, EmpresaLabel) /\ fb_CompanyOf(l) # None
            THEN fb_CompanyOf(l) ELSE h.company,
        cnpj |->
            IF (Contains(l, <<"C",".","N",".","P",".","J",".">>)
                  \/ Contains(l, <<"C","N","P","J">>)) /\ cnpj # None
            THEN cnpj ELSE h.cnpj,
        book_number |->
            IF Contains(Upper(l), <<"L","I","V","R","O",":">>) /\ book # None
            THEN book ELSE h.book_number,
        period |->
            IF Contains(l, <<"P","e","r","i'","o","d","o",":">>) /\ period_start > 0
            THEN PeriodText(l, period_start) ELSE h.period,
        issue_date |->
            IF Contains(l, <<"E","m","i","s","s","a~","o",":">>) /\ issue # None
            THEN issue ELSE h.issue_date,
        time |-> IF Contains(l, <<"H","o","r","a",":">>) /\ time # None THEN time ELSE h.time,
        report_type |->
            IF Contains(l, BalanceteWord) /\ h.report_type = None
            THEN BalanceteWord \o <<" ">> \o ConsolidadoWord ELSE h.report_type,
        page |-> h.page]

RECURSIVE fb_HeaderLoop(_, _, _)
\* for line in lines
fb_HeaderLoop(h, ls, k) ==
    IF k > Len(ls) THEN h ELSE fb_HeaderLoop(fb_HeaderStep(h, ls[k]), ls, k + 1)

\* extract_header of final_balancete_parser.py
extract_header(text) ==
    LET ls == SplitLines(text)
    IN fb_HeaderLoop(NullHeader, SubSeq(ls, 1, Min({Len(ls), HeaderScanLines})), 1)

RECURSIVE fb_DataLoop(_, _, _, _)
\* the loop of extract_data over the lines ls from the k-th on, with the
\* current_parent and the entries so far
fb_DataLoop(ls, k, parent, out) ==
    IF k > Len(ls) THEN out
    ELSE LET e == IF skip_line(ls[k]) THEN Rejected ELSE parse_entry_line(ls[k])
         IN IF ~e.ok THEN fb_DataLoop(ls, k + 1, parent, out)
            ELSE IF is_category(e) THEN fb_DataLoop(ls, k + 1, e.account, Append(out, e))
            ELSE fb_DataLoop(ls, k + 1, parent,
                             Append(out, [e EXCEPT !.parent_category = parent]))

\* extract_data of final_balancete_parser.py
extract_data(text) == fb_DataLoop(SplitLines(text), 1, None, <<>>)

\* the lines of the text of a report
ReportLines ==
    {<<"E","m","p","r","e","s","a",":"," ","A","C","M","E"," ","F","o","l","h","a",":"," ","7">>,
     <<"E","m","p","r","e","s","a",":"," ","B","E","T","A">>,
     <<"B","A","L","A","N","C","E","T","E">>,
     <<"H","o","r","a",":"," ","1","0",":","2","0",":","3","0">>,
     <<"P","A","S","S","I","V","O"," ","7",",","0","0">>}

\* the pages of n lines of text
TextPagesOf(n) == [1..n -> {[text |-> t] : t \in ReportLines}]

RECURSIVE Flatten(_)
\* the concatenation of the strings ss
Flatten(ss) == IF Len(ss) = 0 THEN <<>> ELSE ss[1] \o Flatten(Tail(ss))

\* the number of lines of the pages read so far
LinesRead(texts) ==
    Cardinality({i \in 1..Len(Flatten(texts)) : Flatten(texts)[i] = Newline})

InitBalancete ==
    /\ prog = "parse_balancete_pdf"
    /\ IdleLine
    /\ names = <<>>
    /\ IdleDoc

\* for page in pdf.pages: all_text += text + "\n" when the page has text; all_text
\* is kept as the list of the parts added, the empty string for a page without text
ReadPage ==
    /\ prog = "parse_balancete_pdf"
    /\ header = EmptyDict
    /\ page_num < MaxPages
    /\ \E n \in 0..MaxPageLines : \E pg \in TextPagesOf(n) :
          /\ LinesRead(all_text) + n <= MaxLines
          /\ page' = pg
          /\ all_text' = Append(all_text, IF n = 0 THEN <<>> ELSE PageText(pg) \o <<Newline>>)
    /\ page_num' = page_num + 1
    /\ UNCHANGED <<prog, pc, tokVars, lineVars, names, line_idx, bold_categories, parent_categories,
                   all_data, current_parent, entries, header, log>>

\* result["header"] = extract_header(all_text); result["data"] = extract_data(all_text)
BuildResult ==
    /\ prog = "parse_balancete_pdf"
    /\ header = EmptyDict
    /\ header' = extract_header(Flatten(all_text))
    /\ entries' = extract_data(Flatten(all_text))
    /\ UNCHANGED <<prog, pc, tokVars, lineVars, names, page, page_num, line_idx, bold_categories,
                   parent_categories, all_data, current_parent, all_text, log>>

NextBalancete == ReadPage \/ BuildResult

SpecBalancete == InitBalancete /\ [][NextBalancete]_vars

-----------------------------------------------------------------------------
(* extract_pdf_v3.py *)

RECURSIVE StripWordDigits(_, _)
\* re.sub(r'([A-Za-z])(\d+)(\s|$)', r'\1\3', name), from position i on: the digits
\* are followed by a non-digit, so the group takes the whole run
StripWordDigits(s, i) ==
    IF i > Len(s) THEN <<>>
    ELSE LET de == DigitRunEnd(s, i + 1)
         IN IF s[i] \in UpperAZ \cup LowerAZ /\ de > i /\ de = Len(s)
            THEN <<s[i]>>
            ELSE IF s[i] \in UpperAZ \cup LowerAZ /\ de > i /\ IsSpace(s[de + 1])
            THEN <<s[i], s[de + 1]>> \o StripWordDigits(s, de + 2)
            ELSE <<s[i]>> \o StripWordDigits(s, i + 1)

RECURSIVE StripDigitBetweenLetters(_, _)
\* re.sub(r'([A-Za-z\u00C0-\u00FF])(\d)([A-Za-z\u00C0-\u00FF])', r'\1\3', name), from
\* position i on; a match consumes its three characters
StripDigitBetweenLetters(s, i) ==
    IF i > Len(s) THEN <<>>
    ELSE IF i + 2 <= Len(s) /\ IsAlpha(s[i]) /\ IsDigit(s[i + 1]) /\ IsAlpha(s[i + 2])
    THEN <<s[i], s[i + 2]>> \o StripDigitBetweenLetters(s, i + 3)
    ELSE <<s[i]>> \o StripDigitBetweenLetters(s, i + 1)

\* clean_account_name of extract_pdf_v3.py; the protected classification codes
\* are cut out and put back in place, which leaves the name as it was
v3_clean_account_name(name0) ==
    IF Len(name0) = 0 THEN <<>>
    ELSE LET name1 == StripLeadingCode(name0)
             name2 == StripWordDigits(name1, 1)
             name3 == StripDigitBetweenLetters(name2, 1)
             name4 == CollapseSpaces(name3, 1)
         IN Strip(name4)

\* the skip_keywords of parse_data_line of extract_pdf_v3.py
v3_skip_keywords == skip_keywords \ {<<"F","O","L","H","A",":">>}

\* re.search(r'(\d+\.\d+\.\d+\.\d+\.\d+)', s): <<start, end>> of the first
\* match, <<>> if none
v3_ClassificationSearch(s) ==
    LET I == {i \in 1..Len(s) : DottedEnd(s, i, 5) > 0}
    IN IF I = {} THEN <<>> ELSE <<Min(I), DottedEnd(s, Min(I), 5)>>

\* the branch of parse_data_line of extract_pdf_v3.py for a line without
\* monetary values
v3_ParseBareLine(l) ==
    LET cleaned_account == v3_clean_account_name(l)
    IN IF Len(l) > 10 /\ Len(cleaned_account) > 0
       THEN Entry(None, None, cleaned_account, None, None, None, None, None)
       ELSE Rejected

\* the branch of parse_data_line of extract_pdf_v3.py for a line with monetary
\* values
v3_ParseValueLine(l, matches) ==
    LET monetary_values == Groups(l, matches)
        parts_before_values == Strip(Slice(l, 1, matches[1][1] - 1))
        classification_match == v3_ClassificationSearch(parts_before_values)
        has_classification == classification_match # <<>>
        classification ==
            IF has_classification
            THEN SubSeq(parts_before_values, classification_match[1], classification_match[2])
            ELSE None
        code_before == Strip(Slice(parts_before_values, 1, classification_match[1] - 1))
        code_match ==
            IF has_classification THEN LedgerCodeSearch(code_before)
            ELSE LedgerCodeSearch(parts_before_values)
        code ==
            IF code_match = <<>> THEN None
            ELSE IF has_classification THEN SubSeq(code_before, code_match[1], code_match[2])
            ELSE SubSeq(parts_before_values, code_match[1], code_match[2])
        account_start_idx ==
            IF has_classification THEN classification_match[2]
            ELSE IF code_match # <<>> THEN code_match[2]
            ELSE 0
        account_text == Strip(From(parts_before_values, account_start_idx + 1))
        account == v3_clean_account_name(account_text)
        slots == AssignSlots(monetary_values)
    IN IF Len(account) = 0 THEN Rejected
       ELSE Entry(OrNone(code), OrNone(classification), account,
                  OrNone(slots[1]), OrNone(slots[2]), OrNone(slots[3]), OrNone(slots[4]),
                  None)

\* parse_data_line of extract_pdf_v3.py, which does not use is_bold
v3_parse_data_line(line0) ==
    IF Len(line0) = 0 \/ Len(Strip(line0)) < 3 THEN Rejected
    ELSE LET l == Strip(line0)
             matches == monetary_matches(l)
         IN IF \E kw \in v3_skip_keywords : Contains(Upper(l), kw) THEN Rejected
            ELSE IF Len(matches) = 0 THEN v3_ParseBareLine(l)
            ELSE v3_ParseValueLine(l, matches)

RECURSIVE SortByX0(_)
\* line_chars.sort(key=lambda c: c.get('x0', 0)), a stable sort
SortByX0(cs) ==
    IF Len(cs) = 0 THEN <<>>
    ELSE LET m == Min({cs[i].x0 : i \in 1..Len(cs)})
             k == Min({i \in 1..Len(cs) : cs[i].x0 = m})
         IN <<cs[k]>> \o SortByX0(SubSeq(cs, 1, k - 1) \o SubSeq(cs, k + 1, Len(cs)))

\* the <<line_text.strip(), y, is_bold_line>> of the characters of one line
ReconstructLine(line_chars, y) ==
    LET sorted == SortByX0(line_chars)
    IN <<Strip([i \in 1..Len(sorted) |-> sorted[i].text]), y,
         \E i \in 1..Len(sorted) : sorted[i].bold>>

RECURSIVE ReconstructFrom(_, _)
\* the loop over sorted(lines_dict.items(), key=lambda x: x[0], reverse=True):
\* the lines of the keys Y, the greatest key first
ReconstructFrom(chars, Y) ==
    IF Y = {} THEN <<>>
    ELSE LET y == Max(Y)
             rl == ReconstructLine(SelectSeq(chars, LAMBDA c : c.top = y), y)
         IN (IF Len(rl[1]) > 0 THEN <<rl>> ELSE <<>>) \o ReconstructFrom(chars, Y \ {y})

reconstruct_text_from_chars(chars) ==
    ReconstructFrom(chars, {chars[i].top : i \in 1..Len(chars)})

InitV3 ==
    /\ prog = "extract_pdf_v3"
    /\ IdleLine
    /\ names = <<>>
    /\ IdleDoc

\* reconstructed_lines of the page being processed
reconstructed_lines == reconstruct_text_from_chars(PageChars(page, 1))

\* for page_num, page in enumerate(pdf.pages, 1) of extract_pdf_v3.py
v3_OpenPage ==
    /\ prog = "extract_pdf_v3"
    /\ line_idx = Len(reconstructed_lines)
    /\ page_num < MaxPages
    /\ \E n \in 0..MaxPageLines : \E pg \in PagesOf(n) :
          /\ Len(log) + n <= MaxLines
          /\ page' = pg
          /\ header' = HeaderAfter(header, page_num + 1, pg)
    /\ page_num' = page_num + 1
    /\ line_idx' = 0
    /\ UNCHANGED <<prog, pc, tokVars, lineVars, names, bold_categories, parent_categories, all_data,
                   current_parent, entries, all_text, log>>

\* whether extract_pdf_v3.py takes the line as a category
v3_IsCategoryLine(line_text, is_bold, cleaned_category) ==
    /\ is_bold
    /\ v3_ClassificationSearch(line_text) = <<>>
    /\ Len(cleaned_category) > 5

\* one iteration of "for line_text, y_pos, is_bold in reconstructed_lines"
v3_ProcessLine ==
    /\ prog = "extract_pdf_v3"
    /\ line_idx < Len(reconstructed_lines)
    /\ line_idx' = line_idx + 1
    /\ \E rl \in {reconstructed_lines[line_idx + 1]} :
       \E line_text \in {rl[1]} :
       \E skipped \in {Len(Strip(line_text)) < 3 \/ HasSkipKeyword(line_text)} :
       \E cleaned_category \in {v3_clean_account_name(line_text)} :
       \E e \in {IF skipped THEN Rejected ELSE v3_parse_data_line(line_text)} :
          IF skipped
          THEN /\ UNCHANGED <<parent_categories, all_data>>
               /\ log' = Append(log, LogOf(FALSE, FALSE, parent_categories, all_data))
          ELSE IF v3_IsCategoryLine(line_text, rl[3], cleaned_category)
          THEN /\ parent_categories' = PushCategory(parent_categories, cleaned_category)
               /\ all_data' = IF e.ok
                              THEN Append(all_data, CategoryRecord(e, parent_categories'))
                              ELSE all_data
               /\ log' = Append(log, LogOf(TRUE, e.ok, parent_categories, all_data))
          ELSE /\ all_data' =
                     IF e.ok
                     THEN Append(all_data, DetailRecord(e, parent_categories))
                     ELSE all_data
               /\ log' = Append(log, LogOf(FALSE, e.ok, parent_categories, all_data))
               /\ UNCHANGED parent_categories
    /\ UNCHANGED <<prog, pc, tokVars, lineVars, names, page, page_num, bold_categories, current_parent,
                   entries, header, all_text>>

NextV3 == v3_OpenPage \/ v3_ProcessLine

SpecV3 == InitV3 /\ [][NextV3]_vars

\* the two programs that keep a category stack
InitStacks == InitPdf \/ InitV3

NextStacks == NextPdf \/ NextV3

SpecStacks == InitStacks /\ [][NextStacks]_vars

\* the two programs that take lines as categories by their own rule
InitCategories == InitPdf \/ InitFinal

NextCategories == NextPdf \/ NextFinal

SpecCategories == InitCategories /\ [][NextCategories]_vars

-----------------------------------------------------------------------------
(* The category stack and the parent of a record *)

\* C6: the category stack never holds two entries such that one is a
\* case-insensitive prefix of the other, whichever of the two was pushed first
C6_NoPrefixPairInEitherOrder ==
    \A i \in 1..Len(parent_categories) : \A j \in 1..Len(parent_categories) :
        i # j => ~StartsWith(Upper(parent_categories[i]), Upper(parent_categories[j]))

\* the output list of the program that runs
Output == IF prog = "final" THEN entries ELSE all_data

\* C7: every record emitted for a line that was taken as a category (a push in
\* extract_pdf.py, is_category in final_balancete_parser.py) has parent_category
\* null, in every state up to the final output
C7_CategoryRecordHasNoParent ==
    \A k \in 1..Len(log) :
        (log[k].is_category /\ log[k].index > 0)
            => Output[log[k].index].parent_category = None

\* a category line with a record was read while the stack held a category
C7_Witness ==
    /\ prog = "extract_pdf"
    /\ \E k \in 1..Len(log) :
          /\ log[k].is_category
          /\ log[k].index > 0
          /\ log[k].top # None
          /\ all_data[log[k].index].parent_category = None

\* C8: every record emitted by extract_pdf.py for a line that is no category has
\* parent_category equal to the top of the stack as it was when the line was
\* processed, null when the stack was empty then, whatever was pushed later
C8_DetailParentIsTopWhenProcessed ==
    prog = "extract_pdf" =>
        \A k \in 1..Len(log) :
            (~log[k].is_category /\ log[k].index > 0)
                => all_data[log[k].index].parent_category = log[k].top

\* a detail record keeps its parent after another category became the top
C8_Witness ==
    /\ prog = "extract_pdf"
    /\ Len(parent_categories) >= 2
    /\ \E k \in 1..Len(log) :
          /\ ~log[k].is_category
          /\ log[k].index > 0
          /\ log[k].top # None
          /\ log[k].top # parent_categories[Len(parent_categories)]
          /\ all_data[log[k].index].parent_category = log[k].top

-----------------------------------------------------------------------------
(* The emphasized lines of extract_pdf.py *)

\* the line that the next iteration of the line loop processes
CurrentLine == page[line_idx + 1]

\* an iteration of the line loop of extract_pdf.py is taken
LineStep ==
    /\ prog = "extract_pdf"
    /\ line_idx < Len(page)
    /\ line_idx' = line_idx + 1

\* the emphasized run of a visual line: its leading bold characters
BoldRun(ln) == Strip(Slice(ln.text, 1, ln.bold))

\* a line without skip keyword that is printed in bold (a run of more than 5
\* characters, which the line contains), has no monetary token and no
\* classification code, and is longer than 10 characters
IsEmphasizedBareLine(ln) ==
    LET l == Strip(ln.text)
    IN /\ ~HasSkipKeyword(l)
       /\ Len(BoldRun(ln)) > 5
       /\ Contains(l, BoldRun(ln))
       /\ Len(monetary_matches(l)) = 0
       /\ Len(DeepCodes(l)) = 0
       /\ Len(l) > 10

\* the step leaves name on top of the stack and appends one record without parent
PushedWithRecord(name) ==
    /\ Len(parent_categories') > 0
    /\ parent_categories'[Len(parent_categories')] = name
    /\ Len(all_data') = Len(all_data) + 1
    /\ SubSeq(all_data', 1, Len(all_data)) = all_data
    /\ all_data'[Len(all_data')].parent_category = None

\* C11: processing an emphasized line without monetary token and classification
\* code, longer than 10 characters and free of skip keywords, makes its
\* normalized name the top of the category stack and appends exactly one record
\* with parent_category null, whatever precedes the line on the page
C11_EmphasizedBareLinePushed ==
    [][(LineStep /\ IsEmphasizedBareLine(CurrentLine))
          => PushedWithRecord(clean_account_name_final(Strip(CurrentLine.text)))]_vars

-----------------------------------------------------------------------------
(* The Account Name Normalizer variants applied to one account name *)

\* re.sub(r'^\d+\s+', '', name)
epf_StripLeadingDigits(name) ==
    LET e == DigitRunEnd(name, 1)
        w == SpaceRunEnd(name, e + 1)
    IN IF e >= 1 /\ w > e THEN From(name, w + 1) ELSE name

IsAsciiLetter(c) == c \in UpperAZ \cup LowerAZ

RECURSIVE epf_StripDigitsBetweenLetters(_, _, _)
\* re.sub(r'([A-Za-z])(\d+)([A-Za-z])', r'\1\3', name) for max = Len(name) and
\* re.sub(r'([A-Za-z])(\d)([A-Za-z])', r'\1\3', name) for max = 1, from position i
\* on: the digits are followed by a letter, so the group takes the whole run; a
\* match consumes both letters
epf_StripDigitsBetweenLetters(s, i, max) ==
    IF i > Len(s) THEN <<>>
    ELSE LET de == DigitRunEnd(s, i + 1)
         IN IF IsAsciiLetter(s[i]) /\ de > i /\ de - i <= max /\ de < Len(s)
               /\ IsAsciiLetter(s[de + 1])
            THEN <<s[i], s[de + 1]>> \o epf_StripDigitsBetweenLetters(s, de + 2, max)
            ELSE <<s[i]>> \o epf_StripDigitsBetweenLetters(s, i + 1, max)

\* clean_account_name of extract_pdf_final.py
epf_clean_account_name(name0) ==
    IF Len(name0) = 0 THEN <<>>
    ELSE LET name1 == epf_StripLeadingDigits(name0)
             name2 == epf_StripDigitsBetweenLetters(name1, 1, Len(name1))
             name3 == epf_StripDigitsBetweenLetters(name2, 1, 1)
             name4 == CollapseSpaces(name3, 1)
         IN Strip(name4)

InitClean ==
    /\ prog = "clean"
    /\ IdleLine
    /\ IdleDoc
    /\ \E n \in NameInputs : names = <<n>>

\* extract_pdf.clean_account_name_final(name)
CallCleanAccountNameFinal ==
    /\ prog = "clean"
    /\ parser = "none"
    /\ parser' = "clean_account_name_final"
    /\ names' = Append(names, clean_account_name_final(names[1]))
    /\ UNCHANGED <<prog, pc, tokVars, shape, line, entry, docVars>>

\* extract_pdf_v3.clean_account_name(name)
CallCleanAccountNameV3 ==
    /\ prog = "clean"
    /\ parser = "none"
    /\ parser' = "v3_clean_account_name"
    /\ names' = Append(names, v3_clean_account_name(names[1]))
    /\ UNCHANGED <<prog, pc, tokVars, shape, line, entry, docVars>>

\* extract_pdf_final.clean_account_name(name)
CallCleanAccountNameEpf ==
    /\ prog = "clean"
    /\ parser = "none"
    /\ parser' = "epf_clean_account_name"
    /\ names' = Append(names, epf_clean_account_name(names[1]))
    /\ UNCHANGED <<prog, pc, tokVars, shape, line, entry, docVars>>

NextClean == CallCleanAccountNameFinal \/ CallCleanAccountNameV3 \/ CallCleanAccountNameEpf

SpecClean == InitClean /\ [][NextClean]_vars

\* the letters of a word made of letters followed by digits up to its end, <<>>
\* when the word is not of that form
LettersBeforeDigits(w) ==
    LET le == AlphaRunEnd(w, 1)
    IN IF le >= 1 /\ le < Len(w) /\ DigitRunEnd(w, le + 1) = Len(w)
       THEN SubSeq(w, 1, le) ELSE <<>>

\* C12: every variant of the normalizer (clean_account_name_final of
\* extract_pdf.py, clean_account_name of extract_pdf_v3.py and of
\* extract_pdf_final.py) maps a word made of letters followed by digits up to
\* its end, such as "CAIXA4", to the letters alone
C12_TrailingDigitsDroppedEverywhere ==
    (prog = "clean" /\ parser # "none" /\ Len(LettersBeforeDigits(names[1])) > 0)
        => names[2] = LettersBeforeDigits(names[1])

-----------------------------------------------------------------------------
(* The header *)

\* a page with extractable text was opened and its lines are done: the document
\* may end here, and header is what extract_data_from_pdf returns
ReturnsAfterText ==
    /\ prog = "extract_pdf"
    /\ line_idx = Len(page)
    /\ (Len(page) > 0 \/ Len(log) > 0)

\* C13: for every document with at least one page that has text, the header
\* extract_data_from_pdf returns has the eight keys company, cnpj, report_type,
\* period, issue_date, time, page, book_number, each a string or null (all null
\* when no field is recognized)
C13_HeaderHasAllKeys ==
    ReturnsAfterText =>
        /\ DOMAIN header = HeaderKeys
        /\ \A k \in HeaderKeys : header[k] = None \/ header[k] \in Seq(STRING)

\* the two programs that build a header
InitHeaders == InitPdf \/ InitBalancete

NextHeaders == NextPdf \/ NextBalancete

SpecHeaders == InitHeaders /\ [][NextHeaders]_vars

\* the header extract_data_from_pdf holds once the page of number 1 is opened
PdfHeaderOfPageOne ==
    (prog = "extract_pdf" /\ page_num = 1)
        => header = IF Len(page) = 0 THEN EmptyDict ELSE extract_header_info(PageText(page))

\* the header parse_balancete_pdf returns is the one of the text of page 1
BalanceteHeaderOfPageOne ==
    (prog = "parse_balancete_pdf" /\ header # EmptyDict /\ Len(all_text) >= 1)
        => header = extract_header(all_text[1])

\* C14: the header depends only on the text of page 1: it is built from page 1
\* and no later page changes it, in extract_data_from_pdf of extract_pdf.py and
\* in parse_balancete_pdf of final_balancete_parser.py
C14_HeaderDependsOnPageOneOnly ==
    /\ [](PdfHeaderOfPageOne /\ BalanceteHeaderOfPageOne)
    /\ [][(prog = "extract_pdf" /\ page_num >= 1) => header' = header]_vars

-----------------------------------------------------------------------------
(* The account of a record *)

\* the normalized account name parse_data_line computes for a line: the whole
\* line when it has no monetary token, else the text before the first token and
\* after the classification code or, without one, after the ledger code
NormalizedNameOf(l) ==
    LET ms == monetary_matches(l)
        prefix == Strip(Slice(l, 1, ms[1][1] - 1))
        cm == Classification5Search(prefix)
        km == LedgerCodeSearch(prefix)
        start == IF cm # <<>> THEN cm[2] ELSE IF km # <<>> THEN km[2] ELSE 0
    IN IF Len(ms) = 0 THEN clean_account_name_final(l)
       ELSE clean_account_name_final(Strip(From(prefix, start + 1)))

\* a string without white space at its ends
IsTrimmed(a) == Len(a) = 0 \/ (~IsWs(a[1]) /\ ~IsWs(a[Len(a)]))

\* every record of the output has a trimmed account of at least 3 characters
AccountsWellFormed ==
    \A k \in 1..Len(all_data) :
        /\ all_data[k].account # None
        /\ Len(all_data[k].account) >= 3
        /\ IsTrimmed(all_data[k].account)

\* a line whose normalized name has fewer than 3 characters adds no record
ShortNameAddsNothing ==
    (LineStep /\ Len(NormalizedNameOf(Strip(CurrentLine.text))) < 3) => all_data' = all_data

\* C15: every record in the output of extract_data_from_pdf has a non-empty,
\* trimmed account of at least 3 characters, after any sequence of lines, and a
\* line whose normalized name is empty or shorter than 3 characters produces no
\* record
C15_AccountAtLeastThreeChars ==
    /\ [](prog = "extract_pdf" => AccountsWellFormed)
    /\ [][ShortNameAddsNothing]_vars

\* a line with the two-character name "AB" was processed and left no record,
\* while the output holds a record
C15_Witness ==
    /\ prog = "extract_pdf"
    /\ Len(all_data) > 0
    /\ \E j \in 1..line_idx :
          /\ ~HasSkipKeyword(Strip(page[j].text))
          /\ Len(monetary_matches(Strip(page[j].text))) > 0
          /\ Len(NormalizedNameOf(Strip(page[j].text))) \in 1..2
          /\ log[Len(log) - line_idx + j].index = 0

-----------------------------------------------------------------------------
(* The depth of a classification code *)

\* a dot-delimited sequence of integers: digits and dots, a digit at both ends,
\* at least one dot and no two dots in a row
IsDottedCode(w) ==
    /\ Len(w) >= 3
    /\ \A k \in 1..Len(w) : IsDigitOrDot(w[k])
    /\ IsDigit(w[1]) /\ IsDigit(w[Len(w)])
    /\ \A k \in 1..(Len(w) - 1) : ~(w[k] = "." /\ w[k + 1] = ".")

\* the depth of the classification code of a line: the number of segments of its
\* deepest dotted code, 0 for a line without one
ClassificationDepth(l) ==
    LET ws == Split(l)
        depths == {CountDots(ws[k]) + 1 : k \in {j \in 1..Len(ws) : IsDottedCode(ws[j])}}
    IN IF depths = {} THEN 0 ELSE Max(depths)

InitDepth == InitPdf \/ InitV3 \/ InitFinal

NextDepth == NextPdf \/ NextV3 \/ NextFinal

\* the three programs that decide which lines are categories
SpecDepth == InitDepth /\ [][NextDepth]_vars

\* the history of line j of the current page
LogOfLine(j) == log[Len(log) - line_idx + j]

\* no line of the current page with a code deeper than 2 caused a push
DeepLinesNotPushed ==
    \A j \in 1..line_idx :
        ClassificationDepth(Strip(page[j].text)) > 2 => ~LogOfLine(j).is_category

\* is_category is false for every record whose classification is deeper than 2
DeepEntriesNotCategory ==
    \A k \in 1..Len(entries) :
        (entries[k].classification # None /\ CountDots(entries[k].classification) + 1 > 2)
            => ~is_category(entries[k])

\* C16: no line whose classification code has depth greater than 2 is treated as
\* a category: in extract_pdf.py and extract_pdf_v3.py it causes no push even when
\* it is emphasized, in final_balancete_parser.py is_category is false for it
C16_DeepCodeNeverCategory ==
    /\ prog \in {"extract_pdf", "extract_pdf_v3"} => DeepLinesNotPushed
    /\ prog = "final" => DeepEntriesNotCategory

-----------------------------------------------------------------------------
(* Which lines are pushed *)

\* C17: in extract_data_from_pdf of extract_pdf.py a line is pushed onto the
\* category stack only if an emphasized run lies on its own visual line: a line
\* without emphasis is never pushed, whatever the other lines of the page are
C17_OnlyEmphasizedLinesPushed ==
    prog = "extract_pdf" =>
        \A j \in 1..line_idx : LogOfLine(j).is_category => page[j].bold > 0

-----------------------------------------------------------------------------
(* The effect of a push on the category stack *)

\* c is a prefix of n when case is ignored (c equal to n up to case included)
IsPrefixIgnoringCase(c, n) ==
    /\ Len(c) <= Len(n)
    /\ \A k \in 1..Len(c) : ToUpperChar(c[k]) = ToUpperChar(n[k])

\* the positions of the stack whose entry is no case-insensitive prefix of n
KeptPositions(stack, n) == {i \in 1..Len(stack) : ~IsPrefixIgnoringCase(stack[i], n)}

\* the a-th smallest element of the set K of positions
KthPosition(K, a) == CHOOSE i \in K : Cardinality({m \in K : m <= i}) = a

\* the step of extract_data_from_pdf on a line that is pushed
PushStep ==
    /\ prog = "extract_pdf"
    /\ Len(log') = Len(log) + 1
    /\ log'[Len(log')].is_category

\* the stack after the push of its new top entry: the entries of the old stack
\* that are no case-insensitive prefix of the new top, in their old order, and
\* then the new top
PushEffect ==
    LET new == parent_categories'
        n == new[Len(new)]
        K == KeptPositions(parent_categories, n)
    IN /\ Len(new) = Cardinality(K) + 1
       /\ \A a \in 1..Cardinality(K) : new[a] = parent_categories[KthPosition(K, a)]

\* C18: pushing a category named N in extract_data_from_pdf of extract_pdf.py
\* removes from the stack exactly the entries that are case-insensitive prefixes
\* of N, keeps every other entry in its previous relative order, and leaves N as
\* the last entry
C18_PushRemovesExactlyPrefixes == [][PushStep => (Len(parent_categories') > 0 /\ PushEffect)]_vars

\* the third line of a document was pushed: the entry that was on top when the
\* line was read is a prefix of the new top and is gone, an older entry that is
\* no prefix was kept below the new top
C18_Witness ==
    /\ prog = "extract_pdf"
    /\ Len(log) = 3
    /\ log[3].is_category
    /\ log[3].top # None
    /\ Len(parent_categories) = 2
    /\ IsPrefixIgnoringCase(log[3].top, parent_categories[2])
    /\ log[3].top # parent_categories[2]
    /\ ~IsPrefixIgnoringCase(parent_categories[1], parent_categories[2])

-----------------------------------------------------------------------------
(* The order of the category stack *)

\* C19: in every reachable state of the category stack of extract_data_from_pdf
\* of extract_pdf.py, for two positions i < j the entry at i is no
\* case-insensitive prefix of the entry at j; no two entries are equal up to case
C19_NoEarlierEntryPrefixesLater ==
    prog = "extract_pdf" =>
        \A i, j \in 1..Len(parent_categories) :
            i < j => ~IsPrefixIgnoringCase(parent_categories[i], parent_categories[j])

\* a stack of two entries after three pushes, the later entry being a proper
\* prefix of the earlier one
C19_Witness ==
    /\ prog = "extract_pdf"
    /\ Len(parent_categories) = 2
    /\ Cardinality({k \in 1..Len(log) : log[k].is_category}) = 3
    /\ IsPrefixIgnoringCase(parent_categories[2], parent_categories[1])
    /\ Len(parent_categories[2]) < Len(parent_categories[1])

-----------------------------------------------------------------------------
(* Pushes and category records *)

\* the step appends exactly one record, without parent, and keeps the others
OneCategoryRecordAppended ==
    /\ Len(all_data') = Len(all_data) + 1
    /\ SubSeq(all_data', 1, Len(all_data)) = all_data
    /\ all_data'[Len(all_data')].parent_category = None

\* the step of extract_data_from_pdf on a line that parse_data_line rejects
RejectedLineStep == LineStep /\ ~parse_data_line(Strip(CurrentLine.text)).ok

\* C20: in extract_data_from_pdf of extract_pdf.py every push onto the category
\* stack comes with exactly one category record appended for the same line, and
\* a line that parse_data_line rejects leaves the category stack unchanged
C20_PushComesWithRecord ==
    [][/\ PushStep => OneCategoryRecordAppended
       /\ RejectedLineStep => parent_categories' = parent_categories]_vars

-----------------------------------------------------------------------------
(* Lines without monetary token *)

\* the record of the "bare category" shape for the account name a
BareRecord(a) == Entry(None, None, a, None, None, None, None, None)

\* parse_data_line was called on a trimmed line without skip keyword and without
\* monetary token
BareLineParsed ==
    /\ prog = "line"
    /\ parser = "parse_data_line"
    /\ Strip(line) = line
    /\ ~HasSkipKeyword(line)
    /\ Len(monetary_matches(line)) = 0

\* C21: for a trimmed line that matches no skip keyword and contains no monetary
\* token, parse_data_line of extract_pdf.py returns null when the line has at
\* most 10 characters, and when it has more than 10 and the normalized whole line
\* has at least 3 characters it returns the bare-category record: the normalized
\* line as account, every other field null
C21_BareLineOutcome ==
    BareLineParsed =>
        /\ Len(line) <= 10 => ~entry.ok
        /\ (Len(line) > 10 /\ Len(clean_account_name_final(line)) >= 3)
              => entry = BareRecord(clean_account_name_final(line))

-----------------------------------------------------------------------------
(* extract_pdf_v3.py: the order of the visual lines *)

\* the top coordinate of the k-th line that extract_pdf_v3.py processes on the
\* current page
ProcessedTop(k) == reconstructed_lines[k][2]

\* C22: extract_pdf_v3.py processes the visual lines of a page top-to-bottom, in
\* non-decreasing order of their top coordinate, so a category line printed above
\* a detail line is handled before that detail line
C22_LinesProcessedTopToBottom ==
    prog = "extract_pdf_v3" =>
        \A i, j \in 1..line_idx : i < j => ProcessedTop(i) <= ProcessedTop(j)

-----------------------------------------------------------------------------
(* The category stack across pages *)

\* the step of extract_data_from_pdf from one page to the next
PageStep == prog = "extract_pdf" /\ page_num' = page_num + 1

\* line j of the current page is a detail with a record, and neither it nor a
\* line of the page before it was pushed
IsDetailBeforePagePushes(j) ==
    /\ LogOfLine(j).index > 0
    /\ \A i \in 1..j : ~LogOfLine(i).is_category

\* the k-th line of the document is a detail with a record, and neither it nor a
\* line before it was pushed
IsDetailBeforeAnyPush(k) ==
    /\ log[k].index > 0
    /\ \A i \in 1..k : ~log[i].is_category

\* the details of the current page that precede its category lines have the top
\* the stack had when the page began, the details before any push have no parent
DetailsFollowCarriedStack ==
    /\ \A j \in 1..line_idx :
          IsDetailBeforePagePushes(j)
             => all_data[LogOfLine(j).index].parent_category = LogOfLine(1).top
    /\ \A k \in 1..Len(log) :
          IsDetailBeforeAnyPush(k) => all_data[log[k].index].parent_category = None

\* C23: the category stack of extract_data_from_pdf of extract_pdf.py is created
\* empty once per parse and carries across pages: a detail line of a later page
\* that precedes every category line of its page gets the last category pushed on
\* an earlier page as parent, a detail line processed before any push gets null
C23_StackCarriesAcrossPages ==
    /\ [](prog = "extract_pdf" => DetailsFollowCarriedStack)
    /\ [][PageStep => parent_categories' = parent_categories]_vars

\* the first line of the second page is a detail whose parent is a category that
\* was pushed on the first page
C23_Witness ==
    /\ prog = "extract_pdf"
    /\ page_num = 2
    /\ line_idx >= 1
    /\ Len(log) > line_idx
    /\ \E k \in 1..(Len(log) - line_idx) : log[k].is_category
    /\ IsDetailBeforePagePushes(1)
    /\ all_data[LogOfLine(1).index].parent_category # None
    /\ all_data[LogOfLine(1).index].parent_category = parent_categories[Len(parent_categories)]

-----------------------------------------------------------------------------
(* The output list *)

\* the output list after the step: the list before it, or that list with one
\* record more at its end
AppendsAtMostOne ==
    \/ all_data' = all_data
    \/ /\ Len(all_data') = Len(all_data) + 1
       /\ \A k \in 1..Len(all_data) : all_data'[k] = all_data[k]

\* the indices of the records of the lines, in the order of the lines
RecordIndices == SelectSeq([k \in 1..Len(log) |-> log[k].index], LAMBDA i : i > 0)

\* C24: the output list of extract_data_from_pdf of extract_pdf.py is
\* append-only: a step leaves it unchanged or appends exactly one record and
\* changes no earlier record, so the records are in the order of their lines,
\* at most one per line
C24_OutputAppendOnly ==
    /\ [][prog = "extract_pdf" => AppendsAtMostOne]_vars
    /\ [](prog = "extract_pdf" => RecordIndices = [k \in 1..Len(all_data) |-> k])

\* three lines were processed: the first and the third left a record, the second
\* left none
C24_Witness ==
    /\ prog = "extract_pdf"
    /\ Len(log) = 3
    /\ Len(all_data) = 2
    /\ log[1].index = 1
    /\ log[2].index = 0
    /\ log[3].index = 2

-----------------------------------------------------------------------------
(* The emphasized run of a visual line *)

\* the line is alone in its band of 3 units: the characters of no other line of
\* the page are grouped with its characters
IsAloneInBand(pg, j) == \A i \in 1..Len(pg) : i # j => Abs(pg[i].top - pg[j].top) >= 3

\* the dict has the emphasized run of the line under the line's top coordinate,
\* and no entry for a line without emphasized run
LineMappedToItsRun(d, ln) ==
    IF Len(BoldRun(ln)) > 0
    THEN DictHas(d, ln.top) /\ DictGet(d, ln.top) = BoldRun(ln)
    ELSE ~DictHas(d, ln.top)

\* C25: extract_bold_categories of extract_pdf.py maps each visual line that
\* contains an emphasized run to the longest emphasized run of that line, the
\* first one on ties, and has no entry for a visual line without emphasized run
C25_EachLineMappedToItsRun ==
    prog = "extract_pdf" =>
        \A j \in 1..Len(page) :
            IsAloneInBand(page, j) => LineMappedToItsRun(bold_categories, page[j])

-----------------------------------------------------------------------------
(* Tokenizing the lines ahead of the category resolver *)

\* the lines of the documents that are tokenized ahead
TokenLines == {v \in DocLines : ClassificationDepth(v.text) = 0}

\* the distance between two lines of these documents
TokenGap == 10

RECURSIVE TokenPagesOf(_)
\* the pages of n visual lines
TokenPagesOf(n) ==
    IF n = 0 THEN {<<>>}
    ELSE {Append(pg, [text |-> v.text, bold |-> v.bold, top |-> TokenGap * n]) :
             pg \in TokenPagesOf(n - 1), v \in TokenLines}

\* the place of a line that parse_data_line was not called on yet
Pending == [ok |-> FALSE, pending |-> TRUE]

InitTokens ==
    /\ prog = "tokenize"
    /\ IdleLine
    /\ names = <<>>
    /\ page = <<>>
    /\ page_num = 0
    /\ line_idx = 0
    /\ bold_categories = <<>>
    /\ parent_categories = <<>>
    /\ all_data = <<>>
    /\ current_parent = None
    /\ entries = <<>>
    /\ header = EmptyDict
    /\ all_text = <<>>
    /\ log = <<>>
    /\ resolved = <<>>
    /\ pc = "parse"
    /\ \E n1, n2 \in 0..MaxPageLines :
          /\ n1 + n2 <= MaxLines
          /\ \E p1 \in TokenPagesOf(n1), p2 \in TokenPagesOf(n2) : pages = <<p1, p2>>
    /\ tokens = [p \in 1..Len(pages) |-> [j \in 1..Len(pages[p]) |-> Pending]]

\* every line of the document has its result
AllTokenized == \A p \in 1..Len(tokens) : \A j \in 1..Len(tokens[p]) : tokens[p][j] # Pending

\* entry = parse_data_line(line) on a line of any page that has no result yet,
\* before the resolver starts
TokenizeLine ==
    /\ prog = "tokenize"
    /\ page_num = 0
    /\ \E p \in 1..Len(pages) : \E j \in 1..Len(pages[p]) :
       \E l \in {Strip(pages[p][j].text)} :
       \E e \in {parse_data_line(l)} :
          /\ tokens[p][j] = Pending
          /\ line' = l
          /\ entry' = e
          /\ tokens' = [tokens EXCEPT ![p][j] = e]
    /\ parser' = "parse_data_line"
    /\ UNCHANGED <<prog, pc, shape, names, docVars, pages, resolved>>

\* the next page of the document, once every line has its result
tok_OpenPage ==
    /\ prog = "tokenize"
    /\ AllTokenized
    /\ line_idx = Len(page)
    /\ page_num < Len(pages)
    /\ page' = pages[page_num + 1]
    /\ bold_categories' = extract_bold_categories(PageChars(pages[page_num + 1], 1))
    /\ header' = HeaderAfter(header, page_num + 1, pages[page_num + 1])
    /\ page_num' = page_num + 1
    /\ line_idx' = 0
    /\ parent_categories' = StackOnNextPage(parent_categories)
    /\ UNCHANGED <<prog, pc, tokVars, lineVars, names, all_data, current_parent, entries, all_text, log>>

\* the output list after a line: k > 0 for a line that is pushed, e the result of
\* parse_data_line, before and after the stack before and after the line
OutputAfter(data, k, e, before, after) ==
    IF ~e.ok THEN data
    ELSE IF k > 0 THEN AppendRecord(data, CategoryRecord(e, after))
    ELSE AppendRecord(data, DetailRecord(e, before))

\* one iteration of the loop over the lines of the page, done twice on the same
\* stack: all_data gets the record of the sequential pass, which calls
\* parse_data_line on the line now, resolved gets the record made from the
\* result that was stored for the line
tok_ProcessLine ==
    /\ prog = "tokenize"
    /\ page_num >= 1
    /\ line_idx < Len(page)
    /\ line_idx' = line_idx + 1
    /\ \E l \in {Strip(page[line_idx + 1].text)} :
       \E skipped \in {Len(l) < 3 \/ HasSkipKeyword(l)} :
       \E k \in {IF skipped THEN 0
                 ELSE FirstBoldMatch(l, PageChars(page, 1), bold_categories)} :
       \E e \in {IF skipped THEN Rejected ELSE parse_data_line(l)} :
       \E t \in {IF skipped THEN Rejected ELSE tokens[page_num][line_idx + 1]} :
       \E after \in {IF k > 0
                     THEN PushCategory(parent_categories,
                                       clean_account_name_final(bold_categories[k][2]))
                     ELSE parent_categories} :
          /\ parent_categories' = after
          /\ all_data' = OutputAfter(all_data, k, e, parent_categories, after)
          /\ resolved' = OutputAfter(resolved, k, t, parent_categories, after)
          /\ log' = Append(log, LogOf(k > 0, e.ok, parent_categories, all_data))
    /\ UNCHANGED <<prog, pc, pages, tokens, lineVars, names, page, page_num, bold_categories,
                   current_parent, entries, header, all_text>>

NextTokens == TokenizeLine \/ tok_OpenPage \/ tok_ProcessLine

SpecTokens == InitTokens /\ [][NextTokens]_vars

\* the places of the lines that have their result
Tokenized == {pj \in (1..Len(tokens)) \X (1..MaxPageLines) :
                 pj[2] <= Len(tokens[pj[1]]) /\ tokens[pj[1]][pj[2]] # Pending}

\* the stored results carry no parent and depend on the text of the line alone
TokensDependOnLineAlone ==
    /\ \A a \in Tokenized :
          tokens[a[1]][a[2]].ok => tokens[a[1]][a[2]].parent_category = None
    /\ \A a, b \in Tokenized :
          pages[a[1]][a[2]].text = pages[b[1]][b[2]].text
             => tokens[a[1]][a[2]] = tokens[b[1]][b[2]]

\* a call of parse_data_line leaves the category stack and the output lists alone
TokenizingTouchesNoResolverState ==
    (prog = "tokenize" /\ tokens' # tokens)
        => UNCHANGED <<parent_categories, all_data, resolved, log>>

-----------------------------------------------------------------------------
(* The top of the stack as a single current category *)

\* the last entry of the stack, None for the empty stack
TopOf(stack) == IF Len(stack) = 0 THEN None ELSE stack[Len(stack)]

\* the name that the step on the current line pushes
PushedName ==
    clean_account_name_final(
        bold_categories[FirstBoldMatch(Strip(CurrentLine.text), PageChars(page, 1),
                                       bold_categories)][2])

\* the step appends the record of a line that is not pushed
DetailStep ==
    /\ LineStep
    /\ ~log'[Len(log')].is_category
    /\ Len(all_data') = Len(all_data) + 1

\* the top of the stack moves as one variable would: a push sets it to the pushed
\* name, no other step changes it, and a detail gets the value it has
TopIsCurrentCategory ==
    /\ PushStep => TopOf(parent_categories') = PushedName
    /\ ~PushStep => TopOf(parent_categories') = TopOf(parent_categories)
    /\ DetailStep => all_data'[Len(all_data')].parent_category = TopOf(parent_categories)

\* C27: at every point of a parse by extract_data_from_pdf of extract_pdf.py the
\* top of the category stack is the name of the most recently pushed category, so
\* the output is that of a resolver with a single current category: pruning the
\* prefixes changes the parent_category of no record
C27_TopIsLastPushedCategory == [][prog = "extract_pdf" => TopIsCurrentCategory]_vars

\* two pushes, the second of which pruned the first entry, and then a detail
\* whose parent is the only entry left
C27_Witness ==
    /\ prog = "extract_pdf"
    /\ Len(log) = 3
    /\ log[1].is_category
    /\ log[2].is_category
    /\ ~log[3].is_category
    /\ log[3].index > 0
    /\ log[2].top # None
    /\ log[3].top # log[2].top
    /\ Len(parent_categories) = 1
    /\ all_data[log[3].index].parent_category = parent_categories[1]

-----------------------------------------------------------------------------
(* The stack after the first push *)

\* some line processed so far was pushed
SomePush == \E k \in 1..Len(log) : log[k].is_category

\* the records of the lines that were processed after a push and were not pushed
\* themselves
DetailsAfterFirstPush ==
    {log[k].index : k \in {j \in 1..Len(log) :
                              /\ ~log[j].is_category
                              /\ log[j].index > 0
                              /\ \E i \in 1..(j - 1) : log[i].is_category}}

\* C28: once the first category was pushed, the category stack of
\* extract_data_from_pdf of extract_pdf.py is never empty again for the rest of
\* the parse, so every detail record emitted after the first push has a non-null
\* parent_category
C28_StackNeverEmptyAfterPush ==
    prog = "extract_pdf" =>
        /\ SomePush => Len(parent_categories) > 0
        /\ \A i \in DetailsAfterFirstPush : all_data[i].parent_category # None

\* a push on the first page, and on the second page a detail with its parent
\* after a line that was skipped
C28_Witness ==
    /\ prog = "extract_pdf"
    /\ page_num = 2
    /\ Len(log) = 3
    /\ line_idx = 2
    /\ log[1].is_category
    /\ log[2].index = 0
    /\ ~log[2].is_category
    /\ log[3].index \in DetailsAfterFirstPush
    /\ Len(parent_categories) = 1

-----------------------------------------------------------------------------
(* The parents named by the records *)

\* record k of the list names no parent, or the account of an earlier record
\* that has no parent itself
ParentWasEmitted(data, k) ==
    data[k].parent_category # None =>
        \E i \in 1..(k - 1) :
            /\ data[i].account = data[k].parent_category
            /\ data[i].parent_category = None

\* C29: in the output of extract_data_from_pdf of extract_pdf.py and of
\* extract_data of final_balancete_parser.py every non-null parent_category is
\* the account of an earlier record of the same output whose own parent_category
\* is null
C29_ParentIsEarlierCategoryRecord ==
    /\ prog = "extract_pdf" => \A k \in 1..Len(all_data) : ParentWasEmitted(all_data, k)
    /\ prog = "final" => \A k \in 1..Len(entries) : ParentWasEmitted(entries, k)

-----------------------------------------------------------------------------
(* final_balancete_parser.py: main *)

\* save_json(result, output_path), once parse_balancete_pdf has returned: the
\* header and the records hold strings and None only, which json.dump writes
SaveJson ==
    /\ prog = "parse_balancete_pdf"
    /\ header # EmptyDict
    /\ pc = "parse"
    /\ pc' = "save_json"
    /\ UNCHANGED <<prog, tokVars, lineVars, names, docVars>>

\* the three percentages of print_report divide by len(result['data'])
PercentagesRaise(data) == Len(data) = 0

\* print_report(result, output_path): it ends, or the first percentage raises
PrintReport ==
    /\ prog = "parse_balancete_pdf"
    /\ pc = "save_json"
    /\ pc' = IF PercentagesRaise(entries) THEN "ZeroDivisionError" ELSE "print_report"
    /\ UNCHANGED <<prog, tokVars, lineVars, names, docVars>>

\* return result
ReturnResult ==
    /\ prog = "parse_balancete_pdf"
    /\ pc = "print_report"
    /\ pc' = "return"
    /\ UNCHANGED <<prog, tokVars, lineVars, names, docVars>>

NextMain == NextBalancete \/ SaveJson \/ PrintReport \/ ReturnResult

SpecMain == InitBalancete /\ [][NextMain]_vars

\* C30: for every result of parse_balancete_pdf, the one with an empty data list
\* included, the run of main in final_balancete_parser.py (parse, save_json,
\* print_report) reaches its end without raising an error
C30_MainRaisesNothing == prog = "parse_balancete_pdf" => pc # "ZeroDivisionError"

=============================================================================
